---- MODULE Spec2Model ----
(***************************************************************************)
(* Website-Auditor: the audit pipeline of backend/src (server request,     *)
(* Auditor, Crawler, SitemapFetcher, robots ruleset, PageData, issue       *)
(* detection) as a state machine.                                          *)
(*                                                                         *)
(* URLs are numbered: 0 is the site root "/", 1 is "/a", 2 is "/a/b", any  *)
(* further n is "/p<n>".  The transport (utils/httpClient.js) is the       *)
(* environment: HTTPClient_fetch gives the answers a call may get.        *)
(***************************************************************************)
EXTENDS Integers, Sequences, FiniteSets, TLC

(* ------------------------------ bounds -------------------------------- *)
NumUrls == 3
MaxBudget == 2
MaxSitemap == 1
ChainLen == 103

(* ------------------------- program constants -------------------------- *)
DefaultMaxPages == 100
DefaultMaxRedirects == 5

(* ------------------------------ values -------------------------------- *)
None == <<>>
Some(x) == <<x>>
Null == "null"

(* the aiService of an IssueDetector constructed without one *)
NoAIService == [none |-> TRUE]

Urls == 0 .. (NumUrls - 1)
ExternalUrl == 0 - 1

Range(s) == {s[i] : i \in 1 .. Len(s)}

SeqsUpTo(S, n) == UNION {[1 .. k -> S] : k \in 0 .. n}

NoRepeat(s) == \A i, j \in 1 .. Len(s) : i # j => s[i] # s[j]

(* pathname + search of a URL, as a sequence of characters *)
PathOf(u) ==
  IF u = 0 THEN <<"/">>
  ELSE IF u = 1 THEN <<"/", "a">>
  ELSE IF u = 2 THEN <<"/", "a", "/", "b">>
  ELSE <<"/", "p", ToString(u)>>

(* ------------------------- robots ruleset ------------------------------ *)
startsWith(path, prefix) ==
  /\ Len(prefix) <= Len(path)
  /\ \A i \in 1 .. Len(prefix) : path[i] = prefix[i]

matchesRule(path, rule) ==
  IF rule = <<"/">> THEN TRUE
  ELSE IF rule[Len(rule)] = "*"
       THEN startsWith(path, SubSeq(rule, 1, Len(rule) - 1))
       ELSE startsWith(path, rule)

isAllowed_noDisallow(rules, url) == TRUE

(* the longest matching rule decides, an Allow rule winning a tie *)
isAllowed_longestMatch(rules, url) ==
  LET path == PathOf(url)
      longest(list) ==
        LET hits == {Len(list[i]) : i \in {j \in 1 .. Len(list) : matchesRule(path, list[j])}}
        IN IF hits = {} THEN 0 - 1 ELSE CHOOSE n \in hits : \A m \in hits : m <= n
  IN longest(rules.allow) >= longest(rules.disallow)

isAllowed(rules, url) ==
  LET path == PathOf(url) IN
  IF \E i \in 1 .. Len(rules.allow) : matchesRule(path, rules.allow[i])
  THEN TRUE
  ELSE ~ \E i \in 1 .. Len(rules.disallow) : matchesRule(path, rules.disallow[i])

RECURSIVE disallowScan(_, _, _, _)
disallowScan(path, disallow, i, matchedRule) ==
  IF i > Len(disallow) THEN matchedRule
  ELSE IF /\ matchesRule(path, disallow[i])
          /\ (matchedRule = None \/ Len(disallow[i]) > Len(matchedRule))
       THEN disallowScan(path, disallow, i + 1, disallow[i])
       ELSE disallowScan(path, disallow, i + 1, matchedRule)

getDisallowRule_first(rules, url) ==
  LET path == PathOf(url)
      hits == {i \in 1 .. Len(rules.disallow) : matchesRule(path, rules.disallow[i])}
  IN IF hits = {} THEN None
     ELSE rules.disallow[CHOOSE i \in hits : \A j \in hits : i <= j]

getDisallowRule(rules, url) == disallowScan(PathOf(url), rules.disallow, 1, None)

Rules(allow, disallow) == [allow |-> allow, disallow |-> disallow]

toLowerCase(str) ==
  CASE str = "HTTP" -> "http"
    [] str = "X.COM" -> "x.com"
    [] str = "User-agent" -> "user-agent"
    [] str = "Disallow" -> "disallow"
    [] str = "DISALLOW" -> "disallow"
    [] str = "Allow" -> "allow"
    [] str = "Sitemap" -> "sitemap"
    [] OTHER -> str

(* A line of robots.txt is what is left of it once the comment is cut off  *)
(* and it is trimmed: nothing (blank), text without a colon, or a name and *)
(* a value around the first colon, the value a sequence of characters.     *)
MaxLines == 3

Blank == [colon |-> FALSE, name |-> "", value |-> <<>>]

NoColon == [colon |-> FALSE, name |-> "Disallow /a", value |-> <<>>]

Directive(name, value) == [colon |-> TRUE, name |-> name, value |-> value]

RuleValues ==
  {<<>>, <<"/">>, <<"/", "a">>, <<"/", "a", "/", "b">>, <<"/", "a", "*">>}

RobotsLines ==
  {Blank, NoColon, Directive("Sitemap", <<"/", "a">>), Directive("DISALLOW", <<"/", "a">>),
   Directive("User-agent", <<"*">>), Directive("User-agent", <<"b", "o", "t">>)}
  \cup {Directive("Disallow", v) : v \in RuleValues}
  \cup {Directive("Allow", v) : v \in RuleValues}

RobotsTexts == SeqsUpTo(RobotsLines, MaxLines)

isWildcard_anyAgent(value) == TRUE

isWildcard(value) == value = <<"*">>

(* the loop of parseRobotsTxt from line i on; st holds currentAgent,
   isWildcardAgent and the two rule lists *)
RECURSIVE parseLines(_, _, _)
parseLines(lines, i, st) ==
  IF i > Len(lines) THEN st
  ELSE LET line == lines[i]
           directive == toLowerCase(line.name)
           value == line.value
       IN IF line = Blank \/ ~line.colon THEN parseLines(lines, i + 1, st)
          ELSE IF directive = "user-agent"
          THEN parseLines(lines, i + 1,
                 [st EXCEPT !.currentAgent = Some(value),
                            !.isWildcardAgent = isWildcard(value)])
          ELSE IF /\ st.isWildcardAgent
                  /\ directive = "disallow"
                  /\ st.currentAgent # None
                  /\ isWildcard(st.currentAgent[1])
          THEN parseLines(lines, i + 1,
                 IF value # <<>> THEN [st EXCEPT !.disallow = Append(@, value)] ELSE st)
          ELSE IF /\ st.isWildcardAgent
                  /\ directive = "allow"
                  /\ st.currentAgent # None
                  /\ isWildcard(st.currentAgent[1])
          THEN parseLines(lines, i + 1,
                 IF value # <<>> THEN [st EXCEPT !.allow = Append(@, value)] ELSE st)
          ELSE parseLines(lines, i + 1, st)

parseRobotsTxt(content) ==
  LET st == parseLines(content, 1,
              [currentAgent |-> None, isWildcardAgent |-> FALSE,
               allow |-> <<>>, disallow |-> <<>>])
  IN Rules(st.allow, st.disallow)

(* robots.txt bodies of the crawled sites *)
UA(agent) == Directive("User-agent", agent)

RobotsBodies ==
  {<<>>,
   <<UA(<<"*">>), Directive("Disallow", <<"/", "a">>)>>,
   <<UA(<<"*">>), Directive("Disallow", <<"/", "a", "/", "b">>)>>,
   <<UA(<<"*">>), Directive("Disallow", <<"/", "a">>),
     Directive("Disallow", <<"/", "a", "/", "b">>), Directive("Disallow", <<"/", "a", "*">>)>>,
   <<UA(<<"*">>), Directive("Disallow", <<"/", "a", "*">>),
     Directive("Allow", <<"/", "a", "/", "b">>), Directive("Disallow", <<"/", "a">>)>>,
   <<UA(<<"b", "o", "t">>), Directive("Disallow", <<"/", "a">>), UA(<<"*">>),
     Directive("Disallow", <<"/">>)>>}

Rulesets == {parseRobotsTxt(body) : body \in RobotsBodies}

(* the answer to GET /robots.txt: the request throws, or a status and a body
   whose reading may throw *)
RobotsResponse(threw, status, bodyOk, body) ==
  [threw |-> threw, status |-> status, bodyOk |-> bodyOk, body |-> body]

RobotsResponses ==
  {RobotsResponse(FALSE, 200, TRUE, body) : body \in RobotsBodies}
  \cup {RobotsResponse(TRUE, 0, FALSE, <<>>),
        RobotsResponse(FALSE, 404, TRUE, <<UA(<<"*">>), Directive("Disallow", <<"/">>)>>),
        RobotsResponse(FALSE, 500, TRUE, <<>>),
        RobotsResponse(FALSE, 200, FALSE, <<UA(<<"*">>), Directive("Disallow", <<"/">>)>>)}

responseOk(response) == response.status >= 200 /\ response.status <= 299

RobotsParser_fetch_anyStatus(response) ==
  IF response.threw \/ ~response.bodyOk THEN Rules(<<>>, <<>>)
  ELSE parseRobotsTxt(response.body)

(* RobotsParser.fetch: the rules of this.robots afterwards *)
RobotsParser_fetch(response) ==
  IF response.threw THEN Rules(<<>>, <<>>)
  ELSE IF responseOk(response)
       THEN IF response.bodyOk THEN parseRobotsTxt(response.body) ELSE Rules(<<>>, <<>>)
       ELSE Rules(<<>>, <<>>)

(* ------------------------------ PageData ------------------------------- *)
PageData(url, normalizedURL) ==
  [url |-> url,
   normalized_url |-> normalizedURL,
   resource_type |-> Null,
   http_status |-> None,
   final_url |-> None,
   redirect_chain |-> <<>>,
   title |-> Null,
   h1s |-> <<>>,
   meta_robots |-> Null,
   meta_description |-> Null,
   x_robots_tag |-> Null,
   blocked_by_robots |-> FALSE,
   blocked_by_robots_rule |-> None,
   internal_outgoing_links |-> <<>>,
   content_internal_links |-> <<>>,
   external_outgoing_links |-> <<>>,
   incoming_internal_link_count |-> 0,
   fetch_error |-> Null,
   discovery_method |-> Null]

isPage(p) == p.resource_type = "PAGE"

isResource(p) == p.resource_type = "RESOURCE"

ToJSONFields ==
  {"url", "normalized_url", "resource_type", "http_status", "final_url",
   "redirect_chain", "title", "h1s", "meta_robots", "meta_description",
   "x_robots_tag",
   "blocked_by_robots", "blocked_by_robots_rule", "internal_outgoing_links",
   "external_outgoing_links", "incoming_internal_link_count"}

toJSON(p) == [f \in ToJSONFields |-> p[f]]

(* ------------------------- the site (environment) ---------------------- *)
(* A site is described by its link structure (graph), the URLs that answer *)
(* with a redirect (redirecting) and where to (redirectTo), how many       *)
(* redirects it serves in a row before it answers with content (hopLimit), *)
(* and the ways a content answer may turn out (outcomes).                  *)
Link(u) == [normalized |-> u, isInternal |-> (u # ExternalUrl)]

RECURSIVE UpFrom(_, _)
UpFrom(a, b) == IF a > b THEN <<>> ELSE <<a>> \o UpFrom(a + 1, b)

siteLinks(site, u) ==
  CASE site.graph = "fan" ->
         IF u = 0 THEN UpFrom(1, NumUrls - 1)
         ELSE <<0, u, (u % (NumUrls - 1)) + 1, 0, ExternalUrl>>
    [] site.graph = "ring" ->
         <<(u + 1) % NumUrls, (u + 1) % NumUrls>>
    [] site.graph = "chain" ->
         SelectSeq(<<u + 1, u + 2>>, LAMBDA v : v <= ChainLen)

siteRedirect(site, u) ==
  CASE site.redirectTo = "next" -> (u + 1) % NumUrls
    [] site.redirectTo = "self" -> u
    [] site.redirectTo = "swap" -> IF u = 1 THEN 2 ELSE 1

Outcomes ==
  {"network_error", "no_location", "bad_location", "resource", "body_error",
   "not_found", "ok"}

Site(graph, redirecting, redirectTo, hopLimit, outcomes) ==
  [graph |-> graph, redirecting |-> redirecting, redirectTo |-> redirectTo,
   hopLimit |-> hopLimit, outcomes |-> outcomes]

Sites ==
  {Site("fan", {}, "next", 0, Outcomes),
   Site("ring", {1}, "next", 1, Outcomes),
   Site("fan", {1, 2}, "next", 2, Outcomes),
   Site("fan", {1, 2}, "swap", 2, Outcomes),
   Site("fan", {1, 2}, "swap", DefaultMaxRedirects, Outcomes),
   Site("fan", {1, 2}, "swap", DefaultMaxRedirects + 1, Outcomes),
   Site("ring", {0}, "self", DefaultMaxRedirects + 1, Outcomes)}

ChainSite == Site("chain", {}, "next", 0, {"ok"})

(* ------------------------------ transport ------------------------------ *)
(* What HTTPClient.fetch(url) may produce: a thrown network error/timeout, *)
(* or a response whose url is the requested url (the transport does not    *)
(* follow redirects).  location is the Location header already resolved    *)
(* against url; locationValid = FALSE is a header that new URL() rejects.  *)
Response(threw, status, url, location, locationValid, html, bodyOk, links) ==
  [threw |-> threw, status |-> status, url |-> url, location |-> location,
   locationValid |-> locationValid, html |-> html, bodyOk |-> bodyOk,
   title |-> IF html /\ bodyOk THEN "t" ELSE Null,
   h1s |-> IF html /\ bodyOk THEN <<"h">> ELSE <<>>,
   links |-> links]

contentResponse(site, u, o) ==
  CASE o = "network_error" -> Response(TRUE, 0, u, None, TRUE, FALSE, FALSE, <<>>)
    [] o = "no_location" -> Response(FALSE, 302, u, None, TRUE, FALSE, FALSE, <<>>)
    [] o = "bad_location" -> Response(FALSE, 302, u, Some(u), FALSE, FALSE, FALSE, <<>>)
    [] o = "resource" -> Response(FALSE, 200, u, None, TRUE, FALSE, TRUE, <<>>)
    [] o = "body_error" -> Response(FALSE, 200, u, None, TRUE, TRUE, FALSE, <<>>)
    [] o = "not_found" -> Response(FALSE, 404, u, None, TRUE, TRUE, TRUE, <<>>)
    [] o = "ok" ->
         Response(FALSE, 200, u, None, TRUE, TRUE, TRUE,
                  [i \in 1 .. Len(siteLinks(site, u)) |-> Link(siteLinks(site, u)[i])])

(* served: the number of requests already made in the current attempt *)
HTTPClient_fetch(site, u, served) ==
  IF u \in site.redirecting /\ served < site.hopLimit
  THEN {Response(FALSE, 301, u, Some(siteRedirect(site, u)), TRUE, FALSE, FALSE, <<>>)}
  ELSE {contentResponse(site, u, o) : o \in site.outcomes}

(* --------------------------- request ----------------------------------- *)
Requests == {[maxPages |-> n, unlimited |-> FALSE] : n \in 0 .. MaxBudget}

UnlimitedRequests == {[maxPages |-> 0, unlimited |-> TRUE]}

Sitemaps == {s \in SeqsUpTo(Urls, MaxSitemap) : NoRepeat(s)}

(* a || b of JavaScript on numbers: 0 is falsy *)
OrElse(a, b) == IF a # 0 THEN a ELSE b

(* server: new Auditor(url, {maxPages: unlimited ? 0 : (maxPages || 100)}) *)
serverMaxPages(req) ==
  IF req.unlimited THEN 0 ELSE OrElse(req.maxPages, DefaultMaxPages)

(* Auditor.constructor: this.options.maxPages; options.unlimited is dropped *)
auditorMaxPages(optMaxPages) == OrElse(optMaxPages, DefaultMaxPages)

(* Crawler.constructor *)
crawlerMaxPages(optMaxPages) == OrElse(optMaxPages, DefaultMaxPages)

maxRedirects == DefaultMaxRedirects

(* ------------------------------ state ---------------------------------- *)
VARIABLES
  req,            \* body of POST /api/audit
  site,           \* the crawled site (environment)
  robotsResponse, \* what GET /robots.txt answers (environment)
  rules,          \* CustomRobotsParser.rules['*'] of the audit's RobotsParser
  sitemapURLs,    \* result of SitemapParser.fetch
  pc,             \* position in Auditor.audit / Crawler.crawl
  maxPages,       \* Crawler.maxPages
  queue,          \* Crawler.queue
  visited,        \* Crawler.visited
  pages,          \* Crawler.pages (Map, in insertion order)
  linkGraph,      \* Crawler.linkGraph (source -> Set of targets)
  pageCount,      \* local pageCount of crawl()
  cur,            \* the pageData of the fetch attempt in progress
  fetchUrl,       \* url argument of fetchWithRedirects
  redirectCount,  \* redirectCount argument of fetchWithRedirects
  resp,           \* what fetchWithRedirects returned: None (null) or Some(response)
  pending,        \* sitemapOnlyURLs not yet fetched by SitemapFetcher
  sitemapPages,   \* pages of SitemapFetcher.fetchSitemapOnlyPages
  resultPages,    \* crawlResult.pages: the emitted Page Record list
  issues,         \* detector.detectAll()
  hops,           \* history: urls given to the transport in the current attempt
  fetched,        \* history: every url ever given to the transport
  crawlLog,       \* history: the 'crawling' progress events (their url), in order
  enqueued,       \* history: urls pushed onto the queue, in order
  urlString,      \* URLNormalizer.normalize: the string it is given
  normalized,     \* URLNormalizer.normalize: its results, applied again to each
  robotsTxt,      \* CustomRobotsParser: the robots.txt body, line by line
  robotsRules,    \* CustomRobotsParser.rules['*'] parsed from robotsTxt
  robotsQuery,    \* CustomRobotsParser: the last isAllowed/getDisallowRule answers
  smWeb,          \* SitemapParser: the sitemap documents of the site (environment)
  smStack,        \* SitemapParser: the parseSitemap calls in progress, innermost first
  smUrls,         \* SitemapParser.sitemapURLs (Set, in insertion order)
  smRaised,       \* SitemapParser: an exception reached the catch of fetch()
  smResult,       \* SitemapParser: None, or Some(what fetch() returned)
  smGood,         \* history: the <loc> texts of the url sets read successfully
  smDepthMax,     \* history: the greatest depth a document was requested at
  smFetches,      \* history: the number of documents requested
  detPages,       \* IssueDetector: the Page Records it is constructed with
  detSitemap,     \* IssueDetector: the sitemap URLs it is constructed with
  detAI,          \* IssueDetector: the AIService it is constructed with, or none
  detCore,        \* None, or Some(what detectAll returned without an AIService)
  detIssues,      \* None, or Some(what detectAll returned with detAI)
  poolJob,        \* worker pool: the pipeline, its batches and the provider's replies
  poolQueue,      \* worker pool: queue, the batches not yet taken
  poolAwait,      \* worker pool: the batch each worker awaits, 0 when it has returned
  poolResults,    \* worker pool: allResults
  poolFailed,     \* worker pool: the batches recorded with status 'failed'
  poolDone,       \* history: the batches settled so far, with their workers
  poolReturned,   \* worker pool: processWithWorkers has returned
  seedRun,        \* the crawl over URL strings: request, queue, visited, pages, issues
  server          \* the HTTP server: clock, audits, activeAudits, output directories

vars ==
  <<req, site, robotsResponse, rules, sitemapURLs, pc, maxPages, queue, visited, pages, linkGraph,
    pageCount, cur, fetchUrl, redirectCount, resp, pending, sitemapPages,
    resultPages, issues, hops, fetched, crawlLog, enqueued, urlString, normalized,
    robotsTxt, robotsRules, robotsQuery,
    smWeb, smStack, smUrls, smRaised, smResult, smGood, smDepthMax, smFetches,
    detPages, detSitemap, detAI, detCore, detIssues,
    poolJob, poolQueue, poolAwait, poolResults, poolFailed, poolDone, poolReturned,
    seedRun, server>>

seedURL == 0

auditAll ==
  <<req, site, robotsResponse, rules, sitemapURLs, pc, maxPages, queue, visited, pages,
    linkGraph, pageCount, cur, fetchUrl, redirectCount, resp, pending, sitemapPages,
    resultPages, issues, hops, fetched, crawlLog, enqueued>>

normVars == <<urlString, normalized>>

robotsVars == <<robotsTxt, robotsRules, robotsQuery>>

smVars == <<smWeb, smStack, smUrls, smRaised, smResult, smGood, smDepthMax, smFetches>>

detVars == <<detPages, detSitemap, detAI, detCore, detIssues>>

poolVars ==
  <<poolJob, poolQueue, poolAwait, poolResults, poolFailed, poolDone, poolReturned>>

sideVars == <<seedRun, server>>

envVars ==
  <<req, site, robotsResponse, sitemapURLs, normVars, robotsVars, smVars, detVars, poolVars,
    sideVars>>

crawlVars ==
  <<maxPages, queue, visited, pages, linkGraph, pageCount, crawlLog, enqueued>>

fetchVars == <<cur, fetchUrl, redirectCount, resp, hops, fetched>>

auditVars == <<pending, sitemapPages, resultPages, issues>>

InitWith(requests, sites) ==
  /\ req \in requests
  /\ site \in sites
  /\ robotsResponse \in RobotsResponses
  /\ rules = Rules(<<>>, <<>>)
  /\ sitemapURLs \in Sitemaps
  /\ pc = "new"
  /\ maxPages = 0
  /\ queue = <<>>
  /\ visited = {}
  /\ pages = <<>>
  /\ linkGraph = {}
  /\ pageCount = 0
  /\ cur = PageData(seedURL, seedURL)
  /\ fetchUrl = seedURL
  /\ redirectCount = 0
  /\ resp = None
  /\ pending = <<>>
  /\ sitemapPages = <<>>
  /\ resultPages = <<>>
  /\ issues = <<>>
  /\ hops = <<>>
  /\ fetched = {}
  /\ crawlLog = <<>>
  /\ enqueued = <<>>

(* the URLNormalizer is not in use *)
NormIdle == urlString = None /\ normalized = <<>>

(* no audit is running *)
AuditIdle ==
  /\ InitWith({[maxPages |-> 0, unlimited |-> FALSE]}, {Site("fan", {}, "next", 0, {"ok"})})
  /\ robotsResponse = RobotsResponse(TRUE, 0, FALSE, <<>>)
  /\ rules = Rules(<<>>, <<>>)
  /\ sitemapURLs = <<>>

(* no CustomRobotsParser is under study *)
RobotsIdle == robotsTxt = <<>> /\ robotsRules = None /\ robotsQuery = None

(* no SitemapParser is under study *)
SitemapIdle ==
  /\ smWeb = <<>>
  /\ smStack = <<>>
  /\ smUrls = <<>>
  /\ smRaised = FALSE
  /\ smResult = Some(<<>>)
  /\ smGood = {}
  /\ smDepthMax = 0
  /\ smFetches = 0

(* no IssueDetector is under study *)
DetectIdle ==
  /\ detPages = <<>>
  /\ detSitemap = <<>>
  /\ detAI = NoAIService
  /\ detCore = None
  /\ detIssues = None

(* no worker pool is under study *)
SeedIdle ==
  seedRun = [pc |-> "idle"]

ServerIdle ==
  server = [pc |-> "idle"]

PoolIdle ==
  /\ poolJob = [kind |-> "link", batches |-> 0, bad |-> {}, reply |-> "api_error"]
  /\ poolQueue = <<>>
  /\ poolAwait = <<>>
  /\ poolResults = <<>>
  /\ poolFailed = {}
  /\ poolDone = <<>>
  /\ poolReturned = TRUE

Init ==
  InitWith(Requests, Sites) /\ NormIdle /\ RobotsIdle /\ SitemapIdle /\ DetectIdle /\ PoolIdle /\ SeedIdle /\ ServerIdle

(* ------------------------- Map / Set helpers --------------------------- *)
IndexOf(ps, url) ==
  IF \E i \in 1 .. Len(ps) : ps[i].url = url
  THEN CHOOSE i \in 1 .. Len(ps) : ps[i].url = url
  ELSE 0

(* Map.set: replaces the value of an existing key in place, else appends *)
mapSet(ps, url, pd) ==
  IF IndexOf(ps, url) = 0 THEN Append(ps, pd)
  ELSE [ps EXCEPT ![IndexOf(ps, url)] = pd]

(* linkGraph is kept as the set of its edges <<source, target>>: the Set of
   targets collapses repeated links of one page to one edge *)
recordLink(g, sourceURL, targetURL) == g \cup {<<sourceURL, targetURL>>}

markVisited_forget(v, url) == v

markVisited(v, url) == v \cup {url}

shouldEnqueue_unlessVisited(v, q, link) == link \notin v

shouldEnqueue_whenIdle(v, q, link) == link \notin v /\ q = <<>>

shouldEnqueue(v, q, link) ==
  /\ link \notin v
  /\ ~ \E i \in 1 .. Len(q) : q[i] = link

(* audit() phases 1-3 up to queue.push(seedURL) in crawl() *)
audit_start ==
  /\ pc = "new"
  /\ maxPages' = crawlerMaxPages(auditorMaxPages(serverMaxPages(req)))
  /\ queue' = <<seedURL>>
  /\ enqueued' = <<seedURL>>
  /\ pageCount' = 0
  /\ rules' = RobotsParser_fetch(robotsResponse)
  /\ pc' = "crawl"
  /\ UNCHANGED <<envVars, visited, pages, linkGraph, crawlLog, fetchVars, auditVars>>

(* ----------------------------- Crawler ---------------------------------- *)
blockedPage(pd, rule) ==
  [pd EXCEPT !.blocked_by_robots = TRUE,
             !.blocked_by_robots_rule = rule,
             !.resource_type = "PAGE"]

countsTowardBudget_always(pd) == TRUE

countsTowardBudget_never(pd) == FALSE

countsTowardBudget(pd) == isPage(pd)

shift_last(q) == [url |-> q[Len(q)], rest |-> SubSeq(q, 1, Len(q) - 1)]

(* queue.shift(): the first element, and what stays in the queue *)
shift(q) == [url |-> Head(q), rest |-> Tail(q)]

(* one iteration of the while loop of crawl(), up to its first await *)
crawl ==
  /\ pc = "crawl"
  /\ Len(queue) > 0 /\ pageCount < maxPages
  /\ LET url == shift(queue).url IN
     IF url \in visited
     THEN /\ queue' = shift(queue).rest
          /\ UNCHANGED <<pc, visited, pages, pageCount, crawlLog, fetchVars>>
     ELSE /\ queue' = shift(queue).rest
          /\ visited' = markVisited(visited, url)
          /\ crawlLog' = Append(crawlLog, url)
          /\ IF ~isAllowed(rules, url)
             THEN /\ pages' = mapSet(pages, url,
                                blockedPage(PageData(url, url), getDisallowRule(rules, url)))
                  /\ pageCount' = pageCount + 1
                  /\ UNCHANGED <<pc, fetchVars>>
             ELSE /\ cur' = PageData(url, url)
                  /\ fetchUrl' = url
                  /\ redirectCount' = 0
                  /\ resp' = None
                  /\ hops' = <<>>
                  /\ pc' = "fetch"
                  /\ UNCHANGED <<pages, pageCount, fetched>>
  /\ UNCHANGED <<envVars, rules, maxPages, linkGraph, enqueued, auditVars>>

redirectLimitExceeded_early(count) == count >= maxRedirects

redirectLimitExceeded(count) == count > maxRedirects

isRedirect(r) == r.status >= 300 /\ r.status < 400

pushRedirect_target(chain, url, redirectURL) == Append(chain, redirectURL)

pushRedirect(chain, url, redirectURL) == Append(chain, url)

shouldFollow_unlessSeen(r, chain) ==
  /\ isRedirect(r) /\ r.location # None /\ r.locationValid
  /\ \A i \in 1 .. Len(chain) : chain[i] # r.location[1]

(* a 3xx answer with a Location that resolves is followed; the chain so far *)
(* is not consulted                                                         *)
shouldFollow(r, chain) ==
  isRedirect(r) /\ r.location # None /\ r.locationValid

(* one call of fetchWithRedirects: Crawler's and SitemapFetcher's are the same *)
fetchWithRedirects ==
  /\ pc \in {"fetch", "sfetch"}
  /\ IF redirectLimitExceeded(redirectCount)
     THEN /\ cur' = [cur EXCEPT !.fetch_error = "max_redirects_exceeded"]
          /\ resp' = None
          /\ pc' = IF pc = "fetch" THEN "page" ELSE "spage"
          /\ UNCHANGED <<fetchUrl, redirectCount, hops, fetched>>
     ELSE \E r \in HTTPClient_fetch(site, fetchUrl, Len(hops)) :
          /\ hops' = Append(hops, fetchUrl)
          /\ fetched' = fetched \cup {fetchUrl}
          /\ IF r.threw
             THEN /\ cur' = [cur EXCEPT !.fetch_error = "network_error"]
                  /\ resp' = None
                  /\ pc' = IF pc = "fetch" THEN "page" ELSE "spage"
                  /\ UNCHANGED <<fetchUrl, redirectCount>>
             ELSE IF shouldFollow(r, cur.redirect_chain)
             THEN /\ cur' = [cur EXCEPT !.redirect_chain =
                                 pushRedirect(@, fetchUrl, r.location[1])]
                  /\ fetchUrl' = r.location[1]
                  /\ redirectCount' = redirectCount + 1
                  /\ UNCHANGED <<resp, pc>>
             ELSE /\ resp' = Some(r)
                  /\ pc' = IF pc = "fetch" THEN "page" ELSE "spage"
                  /\ UNCHANGED <<cur, fetchUrl, redirectCount>>
  /\ UNCHANGED <<envVars, rules, crawlVars, auditVars>>

(* the loop over parsed.links of Crawler.fetchPage *)
RECURSIVE processLinks(_, _, _, _)
processLinks(links, i, url, st) ==
  IF i > Len(links) THEN st
  ELSE LET link == links[i] IN
       IF link.isInternal
       THEN processLinks(links, i + 1, url,
              [internal |-> Append(st.internal, link.normalized),
               external |-> st.external,
               graph |-> recordLink(st.graph, url, link.normalized),
               queue |-> IF shouldEnqueue(visited, st.queue, link.normalized)
                         THEN Append(st.queue, link.normalized)
                         ELSE st.queue])
       ELSE processLinks(links, i + 1, url,
              [st EXCEPT !.external = Append(@, link.normalized)])

failedFetch_asResource(pd) ==
  [pd EXCEPT !.resource_type = "RESOURCE"]

failedFetch(pd) ==
  [pd EXCEPT !.resource_type = "PAGE",
             !.fetch_error = IF @ = Null THEN "unknown_fetch_failure" ELSE @]

fetchException(pd) ==
  [pd EXCEPT !.http_status = Some(0),
             !.resource_type = "PAGE",
             !.fetch_error = "exception_during_fetch"]

withResponse(pd, r) ==
  [pd EXCEPT !.http_status = Some(r.status), !.final_url = Some(r.url)]

(* the internal anchors of the content area, one per target and anchor text *)
extractContentLinks(links) ==
  LET at == {i \in 1 .. Len(links) :
               /\ links[i].isInternal
               /\ \A j \in 1 .. i - 1 : links[j].normalized # links[i].normalized}
      nth(k) == CHOOSE i \in at : Cardinality({j \in at : j < i}) = k - 1
  IN [k \in 1 .. Cardinality(at) |-> links[nth(k)].normalized]

withParsed(pd, r, st) ==
  [pd EXCEPT !.title = r.title,
             !.h1s = r.h1s,
             !.content_internal_links = extractContentLinks(r.links),
             !.internal_outgoing_links = st.internal,
             !.external_outgoing_links = st.external]

(* fetchPage after fetchWithRedirects returned, then the rest of the loop body *)
fetchPage ==
  /\ pc = "page"
  /\ LET url == cur.url
         st0 == [internal |-> <<>>, external |-> <<>>, graph |-> linkGraph, queue |-> queue]
         r == resp[1]
         st == IF resp # None /\ r.html /\ r.bodyOk
               THEN processLinks(r.links, 1, url, st0) ELSE st0
         pd == IF resp = None THEN failedFetch(cur)
               ELSE IF ~r.html
                    THEN [withResponse(cur, r) EXCEPT !.resource_type = "RESOURCE"]
               ELSE IF ~r.bodyOk
                    THEN fetchException([withResponse(cur, r) EXCEPT !.resource_type = "PAGE"])
               ELSE withParsed([withResponse(cur, r) EXCEPT !.resource_type = "PAGE"], r, st)
     IN /\ cur' = pd
        /\ queue' = st.queue
        /\ enqueued' = enqueued \o SubSeq(st.queue, Len(queue) + 1, Len(st.queue))
        /\ linkGraph' = st.graph
        /\ pages' = mapSet(pages, url, pd)
        /\ pageCount' = IF countsTowardBudget(pd) THEN pageCount + 1 ELSE pageCount
  /\ pc' = "crawl"
  /\ UNCHANGED <<envVars, rules, maxPages, visited, crawlLog, fetchUrl, redirectCount, resp,
                 hops, fetched, auditVars>>

(* ------------------- buildIncomingLinkCounts --------------------------- *)
(* for (source, targets) of linkGraph: for target of targets:
     incomingCounts.set(target, (incomingCounts.get(target) || 0) + 1)
   adds, for every target, one per source whose Set holds it *)
incomingCounts(g) ==
  [t \in {e[2] : e \in g} |-> Cardinality({s \in {e[1] : e \in g} : <<s, t>> \in g})]

getOr0(counts, url) == IF url \in DOMAIN counts THEN counts[url] ELSE 0

buildIncomingLinkCounts_outgoing(ps, g) ==
  [i \in 1 .. Len(ps) |->
     [ps[i] EXCEPT !.incoming_internal_link_count =
        IF isPage(ps[i]) THEN Cardinality({e \in g : e[1] = ps[i].url}) ELSE 0]]

buildIncomingLinkCounts(ps, g) ==
  LET counts == incomingCounts(g) IN
  [i \in 1 .. Len(ps) |->
     [ps[i] EXCEPT !.incoming_internal_link_count =
        IF isPage(ps[i]) THEN getOr0(counts, ps[i].url) ELSE 0]]

sitemapOnlyURLs_all(smap, ps) == smap

(* audit(): sitemapURLs.filter(url => !spiderVisitedURLs.has(url)) *)
sitemapOnlyURLs(smap, ps) ==
  SelectSeq(smap, LAMBDA url : ~ \E i \in 1 .. Len(ps) : ps[i].url = url)

(* end of the while loop of crawl(), its return, and phase 3.5 of audit()
   up to the call of fetchSitemapOnlyPages *)
crawl_return ==
  /\ pc = "crawl"
  /\ ~ (Len(queue) > 0 /\ pageCount < maxPages)
  /\ pages' = buildIncomingLinkCounts(pages, linkGraph)
  /\ resultPages' = [i \in 1 .. Len(pages) |-> toJSON(pages'[i])]
  /\ pending' = sitemapOnlyURLs(sitemapURLs, resultPages')
  /\ pc' = "sitemap"
  /\ UNCHANGED <<envVars, rules, maxPages, queue, visited, linkGraph, pageCount, crawlLog, enqueued,
                 fetchVars, sitemapPages, issues>>

(* --------------------------- SitemapFetcher ---------------------------- *)
(* one iteration of the for loop of fetchSitemapOnlyPages, up to its await *)
fetchSitemapOnlyPages ==
  /\ pc = "sitemap"
  /\ pending # <<>>
  /\ LET url == Head(pending)
         pageData == [PageData(url, url) EXCEPT !.discovery_method = "SITEMAP_ONLY"]
     IN /\ pending' = Tail(pending)
        /\ IF ~isAllowed(rules, url)
           THEN /\ sitemapPages' =
                     Append(sitemapPages, blockedPage(pageData, getDisallowRule(rules, url)))
                /\ UNCHANGED <<pc, fetchVars>>
           ELSE /\ cur' = pageData
                /\ fetchUrl' = url
                /\ redirectCount' = 0
                /\ resp' = None
                /\ hops' = <<>>
                /\ pc' = "sfetch"
                /\ UNCHANGED <<sitemapPages, fetched>>
  /\ UNCHANGED <<envVars, rules, crawlVars, resultPages, issues>>

RECURSIVE splitLinks(_, _, _)
splitLinks(links, i, st) ==
  IF i > Len(links) THEN st
  ELSE IF links[i].isInternal
       THEN splitLinks(links, i + 1, [st EXCEPT !.internal = Append(@, links[i].normalized)])
       ELSE splitLinks(links, i + 1, [st EXCEPT !.external = Append(@, links[i].normalized)])

sitemapException(pd) ==
  [pd EXCEPT !.fetch_error = "exception_during_fetch", !.resource_type = "PAGE"]

(* SitemapFetcher.fetchPage after fetchWithRedirects returned, and the push *)
sitemapFetchPage ==
  /\ pc = "spage"
  /\ LET r == resp[1]
         st == splitLinks(r.links, 1, [internal |-> <<>>, external |-> <<>>])
         pd == IF resp = None THEN failedFetch(cur)
               ELSE IF ~r.html
                    THEN [withResponse(cur, r) EXCEPT !.resource_type = "RESOURCE"]
               ELSE IF ~r.bodyOk
                    THEN sitemapException([withResponse(cur, r) EXCEPT !.resource_type = "PAGE"])
               ELSE withParsed([withResponse(cur, r) EXCEPT !.resource_type = "PAGE"], r, st)
     IN /\ cur' = pd
        /\ sitemapPages' = Append(sitemapPages, pd)
  /\ pc' = "sitemap"
  /\ UNCHANGED <<envVars, rules, crawlVars, fetchUrl, redirectCount, resp, hops, fetched,
                 pending, resultPages, issues>>

(* ---------------------------- IssueDetector ---------------------------- *)
(* Pairs of naturals in the order a nested loop visits them. *)
Before(p, q) == p[1] < q[1] \/ (p[1] = q[1] /\ p[2] < q[2])

InOrder(S) ==
  [k \in 1 .. Cardinality(S) |->
     CHOOSE p \in S : Cardinality({q \in S : Before(q, p)}) = k - 1]

(* JavaScript's `status >= 400` and `status === 200` on a number or null *)
statusOf(page) == IF page.http_status = None THEN 0 ELSE page.http_status[1]

trim(str) == IF str = " " THEN "" ELSE str

hasText(str) == str # Null /\ trim(str) # ""

includesNoindex(str) == str \in {"noindex", "noindex, nofollow"}

detectBrokenPages(ps) ==
  LET hit == SelectSeq(ps, LAMBDA page : statusOf(page) >= 400)
  IN [i \in 1 .. Len(hit) |->
        LET page == hit[i] IN
          [issue_type |-> "BROKEN_PAGE", url |-> page.url,
           http_status |-> statusOf(page)]]

detectBrokenInternalLinks(ps) ==
  LET last(u) == CHOOSE i \in 1 .. Len(ps) :
                   /\ ps[i].normalized_url = u
                   /\ \A j \in i + 1 .. Len(ps) : ps[j].normalized_url # u
      known(u) == \E i \in 1 .. Len(ps) : ps[i].normalized_url = u
      targetStatus(u) == IF known(u) THEN statusOf(ps[last(u)]) ELSE 0
      hits(i) == {j \in 1 .. Len(ps[i].internal_outgoing_links) :
                    targetStatus(ps[i].internal_outgoing_links[j]) >= 400}
      broken == UNION {{<<i, j>> : j \in hits(i)} : i \in 1 .. Len(ps)}
      at == InOrder(broken)
  IN [k \in 1 .. Len(at) |->
        [issue_type |-> "BROKEN_INTERNAL_LINK", url |-> ps[at[k][1]].url,
         target_url |-> ps[at[k][1]].internal_outgoing_links[at[k][2]]]]

(* disabled in the source: returns at once *)
detectBrokenExternalLinks(ps) == <<>>

detectRedirectChains(ps) ==
  LET hit == SelectSeq(ps, LAMBDA page : Len(page.redirect_chain) > 1)
  IN [i \in 1 .. Len(hit) |->
        LET page == hit[i] IN
          [issue_type |-> "REDIRECT_CHAIN", url |-> page.url,
           chain_length |-> Len(page.redirect_chain)]]

hasLoop_repeatOnly(page) ==
  \E i, j \in 1 .. Len(page.redirect_chain) :
    i < j /\ page.redirect_chain[i] = page.redirect_chain[j]

hasLoop(page) ==
  LET chain == page.redirect_chain IN
  \/ \E i, j \in 1 .. Len(chain) : i < j /\ chain[i] = chain[j]
  \/ page.final_url # None /\ page.final_url[1] \in Range(chain)

detectRedirectLoops(ps) ==
  LET hit == SelectSeq(ps, LAMBDA page : Len(page.redirect_chain) > 0 /\ hasLoop(page))
  IN [i \in 1 .. Len(hit) |->
        LET page == hit[i] IN
          [issue_type |-> "REDIRECT_LOOP", url |-> page.url]]

detectBlockedByRobots(ps) ==
  LET hit == SelectSeq(ps, LAMBDA page : page.blocked_by_robots) IN
  [i \in 1 .. Len(hit) |->
     [issue_type |-> "BLOCKED_BY_ROBOTS", url |-> hit[i].url,
      rule |-> hit[i].blocked_by_robots_rule]]

detectNoindexPages(ps) ==
  LET hit == SelectSeq(ps, LAMBDA page : includesNoindex(page.meta_robots)
                                            \/ includesNoindex(page.x_robots_tag))
  IN [i \in 1 .. Len(hit) |->
        LET page == hit[i] IN
          [issue_type |-> "NOINDEX_PAGE", url |-> page.url]]

detectSitemapOrphans(ps, smap) ==
  LET crawledURLs == {ps[i].normalized_url : i \in 1 .. Len(ps)}
      orphan == SelectSeq(smap, LAMBDA sitemapURL : sitemapURL \notin crawledURLs)
  IN [i \in 1 .. Len(orphan) |-> [issue_type |-> "SITEMAP_ORPHAN", url |-> orphan[i]]]

detectZeroIncomingLinks(ps, normalizedSeed) ==
  LET hit == SelectSeq(ps, LAMBDA page : /\ page.resource_type = "PAGE"
                                         /\ page.incoming_internal_link_count = 0
                                         /\ page.normalized_url # normalizedSeed
                                         /\ ~page.blocked_by_robots)
  IN [i \in 1 .. Len(hit) |->
        LET page == hit[i] IN
          [issue_type |-> "ZERO_INCOMING_LINKS", url |-> page.url]]

detectZeroOutgoingLinks(ps) ==
  LET hit == SelectSeq(ps, LAMBDA page : /\ page.resource_type = "PAGE"
                                         /\ Len(page.internal_outgoing_links) = 0
                                         /\ statusOf(page) = 200)
  IN [i \in 1 .. Len(hit) |->
        LET page == hit[i] IN
          [issue_type |-> "ZERO_OUTGOING_LINKS", url |-> page.url]]

detectMissingTitle(ps) ==
  LET hit == SelectSeq(ps, LAMBDA page : /\ page.resource_type = "PAGE"
                                         /\ statusOf(page) = 200
                                         /\ ~hasText(page.title))
  IN [i \in 1 .. Len(hit) |->
        LET page == hit[i] IN
          [issue_type |-> "MISSING_TITLE", url |-> page.url]]

(* the pages detectDuplicateTitle enters into titleMap *)
entersTitleMap_anyStatus(page) ==
  page.resource_type = "PAGE" /\ hasText(page.title)

entersTitleMap(page) ==
  /\ page.resource_type = "PAGE"
  /\ statusOf(page) = 200
  /\ hasText(page.title)

(* titleMap.get(title): the urls of the pages with that title, in page order *)
titleUrls(ps, title) ==
  LET same == SelectSeq(ps, LAMBDA page : entersTitleMap(page) /\ page.title = title)
  IN [k \in 1 .. Len(same) |-> same[k].url]

(* titleMap keeps titles in the order of their first page; each title with *)
(* more than one url yields one issue per url                              *)
detectDuplicateTitle_pageOrder(ps) ==
  LET group(t) == {i \in 1 .. Len(ps) : entersTitleMap(ps[i]) /\ ps[i].title = t}
      dup == {<<i, i>> : i \in {k \in 1 .. Len(ps) :
                                  entersTitleMap(ps[k]) /\ Cardinality(group(ps[k].title)) > 1}}
      at == InOrder(dup)
  IN [k \in 1 .. Len(at) |->
        [issue_type |-> "DUPLICATE_TITLE", url |-> ps[at[k][2]].url,
         title |-> ps[at[k][2]].title,
         duplicate_count |-> Cardinality(group(ps[at[k][2]].title)),
         all_urls |-> titleUrls(ps, ps[at[k][2]].title)]]

detectDuplicateTitle(ps) ==
  LET group(t) == {i \in 1 .. Len(ps) : entersTitleMap(ps[i]) /\ ps[i].title = t}
      first(t) == CHOOSE i \in group(t) : \A j \in group(t) : i <= j
      dup == {<<first(ps[i].title), i>> : i \in {k \in 1 .. Len(ps) :
                                  entersTitleMap(ps[k]) /\ Cardinality(group(ps[k].title)) > 1}}
      at == InOrder(dup)
      titles == {ps[i].title : i \in {k \in 1 .. Len(ps) : entersTitleMap(ps[k])}}
      urls == [t \in titles |-> titleUrls(ps, t)]
  IN [k \in 1 .. Len(at) |->
        [issue_type |-> "DUPLICATE_TITLE", url |-> ps[at[k][2]].url,
         title |-> ps[at[k][2]].title,
         duplicate_count |-> Len(urls[ps[at[k][2]].title]),
         all_urls |-> urls[ps[at[k][2]].title]]]

detectMissingH1(ps) ==
  LET hit == SelectSeq(ps, LAMBDA page : /\ page.resource_type = "PAGE"
                                         /\ statusOf(page) = 200
                                         /\ Len(page.h1s) = 0)
  IN [i \in 1 .. Len(hit) |->
        LET page == hit[i] IN
          [issue_type |-> "MISSING_H1", url |-> page.url]]

detectMultipleH1(ps) ==
  LET hit == SelectSeq(ps, LAMBDA page : /\ page.resource_type = "PAGE"
                                         /\ statusOf(page) = 200
                                         /\ Len(page.h1s) > 1)
  IN [i \in 1 .. Len(hit) |->
        LET page == hit[i] IN
          [issue_type |-> "MULTIPLE_H1", url |-> page.url,
           h1_count |-> Len(page.h1s)]]

(* disabled in the source: returns at once *)
detectMixedContent(ps) == <<>>

(* one issue per description shared by more than one page, descriptions in *)
(* the order of their first page; the issue carries no url of its own      *)
detectDuplicateMetaDescription(ps) ==
  LET described(i) == statusOf(ps[i]) = 200 /\ hasText(ps[i].meta_description)
      group(d) == {i \in 1 .. Len(ps) : described(i) /\ ps[i].meta_description = d}
      firsts == {<<i, i>> : i \in {k \in 1 .. Len(ps) :
                    /\ described(k)
                    /\ Cardinality(group(ps[k].meta_description)) > 1
                    /\ \A j \in group(ps[k].meta_description) : k <= j}}
      at == InOrder(firsts)
  IN [k \in 1 .. Len(at) |->
        [issue_type |-> "DUPLICATE_META_DESCRIPTION",
         meta_description |-> ps[at[k][1]].meta_description,
         affected_urls |-> {ps[i].url : i \in group(ps[at[k][1]].meta_description)}]]

(* disabled in the source: returns at once *)
detectResourcesBlockedByRobots(ps) == <<>>

(* ------------------------------ AIService ------------------------------ *)
(* reply is what the provider does with every request of this service:     *)
(* "api_error" (the request throws or the status is not ok), "not_json",   *)
(* "not_array", "null_entry" (an array holding null), "clean" (no flag     *)
(* set), "soft404", "both" (both flags on every page), "foreign" (one      *)
(* flagged result naming a url of its own), "odd_explanation" (flagged     *)
(* results whose explanation is a number).                                 *)
AIService(hasClient, optionsEnabled, envEnabled, reply) ==
  [hasClient |-> hasClient, optionsEnabled |-> optionsEnabled,
   envEnabled |-> envEnabled, reply |-> reply]

isEnabled(ai) == ai.hasClient /\ ai.optionsEnabled /\ ai.envEnabled

ForeignUrl == NumUrls + 7

Unparsed == {"api_error", "not_json", "not_array", "null_entry"}

IntentResult(url, soft, mismatch, text) ==
  [url |-> url, is_soft_404 |-> soft, is_intent_mismatch |-> mismatch,
   explanationIsString |-> text]

(* classifyPageIntent with the provider call and parsePageIntentResponse *)
classifyPageIntent(ai, batch) ==
  IF ~isEnabled(ai) \/ batch = <<>> \/ ai.reply \in Unparsed THEN <<>>
  ELSE IF ai.reply = "foreign" THEN <<IntentResult(ForeignUrl, FALSE, TRUE, TRUE)>>
  ELSE [i \in 1 .. Len(batch) |->
          IntentResult(batch[i].url,
                       ai.reply \in {"soft404", "both", "odd_explanation"},
                       ai.reply = "both",
                       ai.reply # "odd_explanation")]

(* classifyIntents with the provider call and parseResponse *)
classifyIntents(ai, batch) ==
  IF ~isEnabled(ai) \/ batch = <<>> \/ ai.reply \in Unparsed THEN <<>>
  ELSE [i \in 1 .. Len(batch) |->
          [source_url |-> batch[i].source_url,
           is_mismatch |-> ai.reply \in {"both", "foreign"}]]

workerCount == 5

LinkBatchSize == 5

PageBatchSize == 30

createBatches(items, size) ==
  [k \in 1 .. (Len(items) + size - 1) \div size |->
     SubSeq(items, (k - 1) * size + 1,
            IF k * size < Len(items) THEN k * size ELSE Len(items))]

(* results.push(...batchResults) for each batch, in the order the batches *)
(* were queued                                                             *)
pushAll(parts) ==
  LET at == InOrder(UNION {{<<k, i>> : i \in 1 .. Len(parts[k])} : k \in 1 .. Len(parts)})
  IN [n \in 1 .. Len(at) |-> parts[at[n][1]][at[n][2]]]

(* ------------------------- LinkIntentPipeline -------------------------- *)
contentLinksOf(page) ==
  IF "content_internal_links" \in DOMAIN page THEN page.content_internal_links ELSE <<>>

collectContentLinks(ps) ==
  LET at == InOrder(UNION {{<<i, j>> : j \in 1 .. Len(contentLinksOf(ps[i]))}
                           : i \in 1 .. Len(ps)})
  IN [k \in 1 .. Len(at) |->
        [source_url |-> ps[at[k][1]].url,
         destination_url |-> contentLinksOf(ps[at[k][1]])[at[k][2]]]]

LinkIntentPipeline_run(ps, ai) ==
  IF ~isEnabled(ai) THEN <<>>
  ELSE LET allContentLinks == collectContentLinks(ps)
           batches == createBatches(allContentLinks, LinkBatchSize)
           results == pushAll([k \in 1 .. Len(batches) |-> classifyIntents(ai, batches[k])])
           mismatches == SelectSeq(results, LAMBDA r : r.is_mismatch)
       IN IF allContentLinks = <<>> THEN <<>>
          ELSE [i \in 1 .. Len(mismatches) |->
                  [issue_type |-> "LINK_INTENT_MISMATCH", url |-> mismatches[i].source_url]]

(* ------------------------- PageIntentPipeline -------------------------- *)
buildPageObjects(ps) ==
  LET eligible == SelectSeq(ps, LAMBDA page :
                     /\ page.resource_type = "PAGE"
                     /\ ~(statusOf(page) >= 400)
                     /\ Len(page.redirect_chain) = 0
                     /\ ~(page.title \in {Null, ""} /\ Len(page.h1s) = 0))
  IN [i \in 1 .. Len(eligible) |->
        [url |-> eligible[i].url, title |-> eligible[i].title,
         http_status |-> eligible[i].http_status]]

PageIntentPipeline_createIssues(results) ==
  LET at == InOrder({<<i, 1>> : i \in {k \in 1 .. Len(results) : results[k].is_soft_404}}
                    \cup {<<i, 2>> : i \in {k \in 1 .. Len(results) :
                                              results[k].is_intent_mismatch}})
  IN [k \in 1 .. Len(at) |->
        [issue_type |-> IF at[k][2] = 1 THEN "SOFT_404" ELSE "PAGE_INTENT_MISMATCH",
         url |-> results[at[k][1]].url]]

PageIntentPipeline_run(ps, ai) ==
  IF ~isEnabled(ai) THEN <<>>
  ELSE LET pageObjects == buildPageObjects(ps)
           batches == createBatches(pageObjects, PageBatchSize)
           results == pushAll([k \in 1 .. Len(batches) |-> classifyPageIntent(ai, batches[k])])
       IN IF pageObjects = <<>> THEN <<>>
          ELSE PageIntentPipeline_createIssues(results)

aiEnabled(ai) == ai # NoAIService /\ isEnabled(ai)

detectLinkIntentMismatch(ps, ai) ==
  IF ~aiEnabled(ai) THEN <<>> ELSE LinkIntentPipeline_run(ps, ai)

detectPageIntentIssues(ps, ai) ==
  IF ~aiEnabled(ai) THEN <<>> ELSE PageIntentPipeline_run(ps, ai)

(* the deterministic checks of detectionMethods, in declaration order *)
coreIssues(ps, smap) ==
  detectBrokenPages(ps) \o detectBrokenInternalLinks(ps)
  \o detectBrokenExternalLinks(ps) \o detectRedirectChains(ps)
  \o detectRedirectLoops(ps) \o detectBlockedByRobots(ps)
  \o detectNoindexPages(ps) \o detectSitemapOrphans(ps, smap)
  \o detectZeroIncomingLinks(ps, seedURL) \o detectZeroOutgoingLinks(ps)
  \o detectMissingTitle(ps) \o detectDuplicateTitle(ps)
  \o detectMissingH1(ps) \o detectMultipleH1(ps)
  \o detectMixedContent(ps) \o detectDuplicateMetaDescription(ps)
  \o detectResourcesBlockedByRobots(ps)

detectAll_aiFirst(ps, smap, ai) ==
  detectLinkIntentMismatch(ps, ai) \o detectPageIntentIssues(ps, ai)
  \o coreIssues(ps, smap)

detectAll(ps, smap, ai) ==
  coreIssues(ps, smap)
  \o detectLinkIntentMismatch(ps, ai) \o detectPageIntentIssues(ps, ai)

(* the AIService of audit(): enableAI is on by default, and no provider key *)
(* is configured, so it has no client                                      *)
auditAI == AIService(FALSE, TRUE, TRUE, "api_error")

(* audit(): merge of the sitemap-only pages, phase 4, and the returned result *)
audit_detect ==
  /\ pc = "sitemap"
  /\ pending = <<>>
  /\ resultPages' = resultPages \o [i \in 1 .. Len(sitemapPages) |-> toJSON(sitemapPages[i])]
  /\ issues' = detectAll(resultPages', sitemapURLs, auditAI)
  /\ pc' = "done"
  /\ UNCHANGED <<envVars, rules, crawlVars, fetchVars, pending, sitemapPages>>

Next ==
  \/ audit_start
  \/ crawl
  \/ fetchWithRedirects
  \/ fetchPage
  \/ crawl_return
  \/ fetchSitemapOnlyPages
  \/ sitemapFetchPage
  \/ audit_detect

Spec == Init /\ [][Next]_vars

(* an audit requested with unlimited = true, also on a site that is a long
   chain u -> u+1, u+2 of pages *)
InitUnlimited ==
  InitWith(UnlimitedRequests, Sites \cup {ChainSite})
  /\ NormIdle /\ RobotsIdle /\ SitemapIdle /\ DetectIdle /\ PoolIdle /\ SeedIdle /\ ServerIdle

SpecUnlimited == InitUnlimited /\ [][Next]_vars

(* audits with a page budget, also on the long chain of pages, which has more
   URLs than any budget; every step is the run going on: an await of crawl() or
   of the sitemap-only fetch settles (the transport answers, fails or times
   out) and the code after it runs *)
InitBudget ==
  (\/ InitWith(Requests, Sites)
   \/ InitWith({r \in Requests : r.maxPages > 0}, {ChainSite}))
  /\ NormIdle /\ RobotsIdle /\ SitemapIdle /\ DetectIdle /\ PoolIdle /\ SeedIdle /\ ServerIdle

SpecBudget == InitBudget /\ [][Next]_vars /\ WF_vars(Next)

(* --------------------------- URLNormalizer ----------------------------- *)
(* A URL string is kept as its parts as written: scheme, host and port in  *)
(* the case and form given, the path as its characters, the query and the  *)
(* fragment.                                                               *)
MaxPathLen == 4

PathChars == {"/", "a"}

PathStrings ==
  {<<>>} \cup {p \in SeqsUpTo(PathChars, MaxPathLen) : Len(p) >= 1 /\ p[1] = "/"}

UrlStrings ==
  [scheme : {"http", "HTTP", "https"}, host : {"x.com", "X.COM"},
   port : {"", "80", "443", "99999"}, path : PathStrings,
   search : {"", "?q"}, hash : {"", "#f"}]

defaultPort(protocol) == IF protocol = "http" THEN "80" ELSE "443"

(* new URL(urlString): the WHATWG parser lowercases scheme and host, drops
   the scheme's default port, gives an empty path the value "/", and throws
   on a port above 65535 *)
parseURL(str) ==
  IF str.port = "99999" THEN None
  ELSE Some([protocol |-> toLowerCase(str.scheme),
             hostname |-> toLowerCase(str.host),
             port |-> IF str.port = defaultPort(toLowerCase(str.scheme)) THEN "" ELSE str.port,
             pathname |-> IF str.path = <<>> THEN <<"/">> ELSE str.path,
             search |-> str.search,
             hash |-> str.hash])

href(url) ==
  [scheme |-> url.protocol, host |-> url.hostname, port |-> url.port,
   path |-> url.pathname, search |-> url.search, hash |-> url.hash]

endsWith(str, c) == Len(str) > 0 /\ str[Len(str)] = c

stripTrailingSlash(pathname) ==
  IF pathname # <<"/">> /\ endsWith(pathname, "/")
  THEN SubSeq(pathname, 1, Len(pathname) - 1)
  ELSE pathname

(* URLNormalizer.normalize(urlString): None is null *)
normalize(str) ==
  IF parseURL(str) = None THEN None
  ELSE LET url == parseURL(str)[1]
           lowered == [url EXCEPT !.protocol = toLowerCase(@),
                                  !.hostname = toLowerCase(@),
                                  !.hash = ""]
           ported == IF \/ (lowered.protocol = "http" /\ lowered.port = "80")
                        \/ (lowered.protocol = "https" /\ lowered.port = "443")
                     THEN [lowered EXCEPT !.port = ""]
                     ELSE lowered
       IN Some(href([ported EXCEPT !.pathname = stripTrailingSlash(@)]))

InitNormalize ==
  /\ AuditIdle
  /\ RobotsIdle
  /\ SitemapIdle
  /\ DetectIdle
  /\ PoolIdle /\ SeedIdle /\ ServerIdle
  /\ urlString \in UrlStrings
  /\ normalized = <<>>

(* normalize(urlString), then normalize of each result *)
normalize_apply ==
  /\ Len(normalized) < 2
  /\ (normalized # <<>> => normalized[Len(normalized)] # None)
  /\ normalized' =
       Append(normalized,
              normalize(IF normalized = <<>> THEN urlString
                        ELSE normalized[Len(normalized)][1]))
  /\ UNCHANGED <<auditAll, sideVars, detVars, poolVars, urlString, robotsVars, smVars>>

NextNormalize == normalize_apply

SpecNormalize == InitNormalize /\ [][NextNormalize]_vars

(* ------------------------ CustomRobotsParser --------------------------- *)
(* the URLs asked about: those of the crawl and one under no rule *)
RobotsUrls == 0 .. NumUrls

InitRobots ==
  /\ AuditIdle
  /\ NormIdle
  /\ SitemapIdle
  /\ DetectIdle
  /\ PoolIdle /\ SeedIdle /\ ServerIdle
  /\ robotsTxt \in RobotsTexts
  /\ robotsRules = None
  /\ robotsQuery = None

(* new CustomRobotsParser(robotsTxt) *)
robots_construct ==
  /\ robotsRules = None
  /\ robotsRules' = Some(parseRobotsTxt(robotsTxt))
  /\ UNCHANGED <<auditAll, sideVars, detVars, poolVars, normVars, smVars, robotsTxt, robotsQuery>>

(* isAllowed(url) and getDisallowRule(url) on the constructed parser *)
robots_query ==
  /\ robotsRules # None
  /\ \E url \in RobotsUrls :
       robotsQuery' = Some([url |-> url,
                            allowed |-> isAllowed(robotsRules[1], url),
                            rule |-> getDisallowRule(robotsRules[1], url)])
  /\ UNCHANGED <<auditAll, sideVars, detVars, poolVars, normVars, smVars, robotsTxt, robotsRules>>

NextRobots == robots_construct \/ robots_query

SpecRobots == InitRobots /\ [][NextRobots]_vars

(* --------------------------- SitemapParser ----------------------------- *)
(* Sitemap documents are numbered, 0 being /sitemap.xml.  A document is a  *)
(* sitemap index (the <loc> texts of its children: a document, or None for *)
(* an empty text), a url set (its <loc> texts: a URL string, or None) or   *)
(* XML with neither.  Every request may also fail.                         *)
MaxSitemapDepth == 5

Loc(path) ==
  [scheme |-> "http", host |-> "x.com", port |-> "", path |-> path, search |-> "",
   hash |-> ""]

LocA == Loc(<<"/", "a">>)

LocASlash == Loc(<<"/", "a", "/">>)

LocB == Loc(<<"/", "a", "/", "a">>)

LocC == Loc(<<"/", "a", "a">>)

LocBad == [Loc(<<"/">>) EXCEPT !.port = "99999"]

SitemapIndex(children) == [kind |-> "index", children |-> children, locs |-> <<>>]

UrlSet(locs) == [kind |-> "urlset", children |-> <<>>, locs |-> locs]

Garbage == [kind |-> "garbage", children |-> <<>>, locs |-> <<>>]

SitemapWebs ==
  {<<UrlSet(<<Some(LocA), None, Some(LocBad), Some(LocASlash)>>)>>,
   <<SitemapIndex(<<Some(1), None, Some(2), Some(3)>>), UrlSet(<<Some(LocA)>>),
     UrlSet(<<Some(LocB)>>), UrlSet(<<Some(LocASlash), Some(LocC)>>)>>,
   <<SitemapIndex(<<Some(0)>>)>>,
   <<SitemapIndex(<<Some(0), Some(0)>>)>>,
   <<SitemapIndex(<<Some(1), Some(2)>>), SitemapIndex(<<Some(0), Some(2)>>),
     UrlSet(<<Some(LocB)>>)>>,
   <<Garbage>>}

SitemapOutcomes == {"throws", "not_ok", "text_throws", "served"}

Frame(sitemapURL, depth) ==
  [sitemapURL |-> sitemapURL, depth |-> depth, entered |-> FALSE, children |-> <<>>]

depthExceeded_late(depth) == depth > MaxSitemapDepth + 1

depthExceeded(depth) == depth > MaxSitemapDepth

(* Set.add of every non-empty <loc> text that normalize accepts *)
RECURSIVE addLocs(_, _, _)
addLocs(urls, locs, i) ==
  IF i > Len(locs) THEN urls
  ELSE IF locs[i] = None \/ normalize(locs[i][1]) = None
       THEN addLocs(urls, locs, i + 1)
       ELSE LET normalizedLoc == normalize(locs[i][1])[1]
            IN addLocs(IF normalizedLoc \in Range(urls) THEN urls
                       ELSE Append(urls, normalizedLoc), locs, i + 1)

(* the catch of parseSitemap: the call returns, its caller goes on *)
catchParseSitemap_rethrow(stack) == [stack |-> <<>>, raised |-> TRUE]

catchParseSitemap(stack) == [stack |-> Tail(stack), raised |-> FALSE]

InitSitemap ==
  /\ AuditIdle
  /\ NormIdle
  /\ RobotsIdle
  /\ DetectIdle
  /\ PoolIdle /\ SeedIdle /\ ServerIdle
  /\ smWeb \in SitemapWebs
  /\ smStack = <<Frame(0, 0)>>
  /\ smUrls = <<>>
  /\ smRaised = FALSE
  /\ smResult = None
  /\ smGood = {}
  /\ smDepthMax = 0
  /\ smFetches = 0

(* parseSitemap(sitemapURL, depth) up to its first call of itself or its
   return *)
parseSitemap ==
  /\ smResult = None
  /\ smStack # <<>>
  /\ ~Head(smStack).entered
  /\ LET frame == Head(smStack)
         doc == smWeb[frame.sitemapURL + 1]
     IN IF depthExceeded(frame.depth)
        THEN /\ smStack' = Tail(smStack)
             /\ UNCHANGED <<smUrls, smRaised, smGood, smDepthMax, smFetches>>
        ELSE /\ smFetches' = smFetches + 1
             /\ smDepthMax' = IF frame.depth > smDepthMax THEN frame.depth ELSE smDepthMax
             /\ \E outcome \in SitemapOutcomes :
                  IF outcome \in {"throws", "text_throws"}
                  THEN /\ smStack' = catchParseSitemap(smStack).stack
                       /\ smRaised' = catchParseSitemap(smStack).raised
                       /\ UNCHANGED <<smUrls, smGood>>
                  ELSE IF outcome = "not_ok"
                  THEN /\ smStack' = Tail(smStack)
                       /\ UNCHANGED <<smUrls, smRaised, smGood>>
                  ELSE IF doc.kind = "index" /\ Len(doc.children) > 0
                  THEN /\ smStack' =
                            <<[frame EXCEPT !.entered = TRUE, !.children = doc.children]>>
                            \o Tail(smStack)
                       /\ UNCHANGED <<smUrls, smRaised, smGood>>
                  ELSE /\ smUrls' = addLocs(smUrls, doc.locs, 1)
                       /\ smGood' = smGood \cup Range(doc.locs)
                       /\ smStack' = Tail(smStack)
                       /\ UNCHANGED smRaised
  /\ UNCHANGED <<auditAll, sideVars, detVars, poolVars, normVars, robotsVars, smWeb, smResult>>

(* the loop over the children of a sitemap index: the next child, or the
   return after the last *)
parseSitemap_child ==
  /\ smResult = None
  /\ smStack # <<>>
  /\ Head(smStack).entered
  /\ LET frame == Head(smStack)
         rest == [frame EXCEPT !.children = Tail(@)]
     IN IF frame.children = <<>>
        THEN smStack' = Tail(smStack)
        ELSE IF Head(frame.children) = None
        THEN smStack' = <<rest>> \o Tail(smStack)
        ELSE smStack' =
               <<Frame(Head(frame.children)[1], frame.depth + 1), rest>> \o Tail(smStack)
  /\ UNCHANGED <<auditAll, sideVars, detVars, poolVars, normVars, robotsVars, smWeb, smUrls, smRaised, smResult, smGood,
                 smDepthMax, smFetches>>

(* SitemapParser.fetch after parseSitemap returned or threw *)
sitemap_fetch_return ==
  /\ smResult = None
  /\ smStack = <<>>
  /\ smResult' = Some(IF smRaised THEN <<>> ELSE smUrls)
  /\ UNCHANGED <<auditAll, sideVars, detVars, poolVars, normVars, robotsVars, smWeb, smStack, smUrls, smRaised, smGood,
                 smDepthMax, smFetches>>

NextSitemap == parseSitemap \/ parseSitemap_child \/ sitemap_fetch_return

SpecSitemap == InitSitemap /\ [][NextSitemap]_vars

(* the event loop runs every pending continuation *)
SpecSitemapFair == SpecSitemap /\ WF_vars(NextSitemap)

(* ---------------------------- IssueDetector ---------------------------- *)
(* The detector as a component: detectAll over a list of Page Records as   *)
(* toJSON emits them, once without an AIService and once with one.         *)
MaxDetPages == 4

PageKinds == {"home", "post", "bare", "gone", "blocked"}

(* the record of url u in a list of n records; its links and redirects go  *)
(* to the next url of the list                                             *)
DetPage(kind, u, n) ==
  LET next == (u + 1) % n
      pd == PageData(u, u)
  IN toJSON(
     CASE kind = "home" ->
            [pd EXCEPT !.resource_type = "PAGE", !.http_status = Some(200),
                       !.final_url = Some(u), !.title = "t", !.h1s = <<"h">>,
                       !.meta_description = "d",
                       !.internal_outgoing_links = <<next>>,
                       !.incoming_internal_link_count = 1]
       [] kind = "post" ->
            [pd EXCEPT !.resource_type = "PAGE", !.http_status = Some(200),
                       !.final_url = Some(u), !.title = "t2", !.h1s = <<"h", "h">>,
                       !.meta_description = "d2", !.x_robots_tag = "noindex",
                       !.internal_outgoing_links = <<next, u>>]
       [] kind = "bare" ->
            [pd EXCEPT !.resource_type = "PAGE", !.http_status = Some(200),
                       !.final_url = Some(u),
                       !.meta_robots = "noindex, nofollow"]
       [] kind = "gone" ->
            [pd EXCEPT !.resource_type = "PAGE", !.http_status = Some(404),
                       !.final_url = Some(next),
                       !.redirect_chain = <<u, next, u>>, !.title = "t",
                       !.incoming_internal_link_count = 1]
       [] kind = "blocked" ->
            [pd EXCEPT !.blocked_by_robots = TRUE,
                       !.blocked_by_robots_rule = Some(<<"/">>)])

DetPageLists ==
  UNION {{[i \in 1 .. n |-> DetPage(kinds[i], i - 1, n)] : kinds \in [1 .. n -> PageKinds]}
         : n \in 1 .. MaxDetPages}

DetSitemaps == {<<>>, <<ForeignUrl + 1, 0, ForeignUrl>>}

AIServices ==
  {NoAIService, AIService(TRUE, FALSE, TRUE, "both"), AIService(FALSE, TRUE, TRUE, "both")}
  \cup {AIService(TRUE, TRUE, TRUE, reply) : reply \in {"api_error", "both", "foreign"}}

InitDetect ==
  /\ AuditIdle
  /\ NormIdle
  /\ RobotsIdle
  /\ SitemapIdle
  /\ PoolIdle /\ SeedIdle /\ ServerIdle
  /\ detPages \in DetPageLists
  /\ detSitemap \in DetSitemaps
  /\ detAI \in AIServices
  /\ detCore = None
  /\ detIssues = None

(* new IssueDetector(pages, ..., sitemapURLs).detectAll(), no aiService given *)
detectAll_withoutAI ==
  /\ detPages # <<>>
  /\ detCore = None
  /\ detCore' = Some(detectAll(detPages, detSitemap, NoAIService))
  /\ UNCHANGED <<auditAll, sideVars, poolVars, normVars, robotsVars, smVars, detPages, detSitemap, detAI, detIssues>>

(* new IssueDetector(pages, ..., sitemapURLs, aiService).detectAll() *)
detectAll_withAI ==
  /\ detPages # <<>>
  /\ detIssues = None
  /\ detIssues' = Some(detectAll(detPages, detSitemap, detAI))
  /\ UNCHANGED <<auditAll, sideVars, poolVars, normVars, robotsVars, smVars, detPages, detSitemap, detAI, detCore>>

NextDetect ==
  \/ detectAll_withoutAI
  \/ detectAll_withAI

SpecDetect == InitDetect /\ [][NextDetect]_vars

(* ----------------------- pipeline worker pools ------------------------- *)
(* processWithWorkers of LinkIntentPipeline ("link") and PageIntentPipeline *)
(* ("page"): min(workerCount, batches) workers share one queue of batches   *)
(* and one result list.  A worker runs without interruption from one await  *)
(* to the next, so one step is: the awaited classification settles, the     *)
(* rest of the loop body runs, and the next batch is taken.                 *)
MaxBatches == 6

ItemsPerBatch == 2

BadReplies == {"api_error", "not_json", "odd_explanation"}

(* a run: which pipeline, how many batches, which of them get the bad reply *)
PoolJobs ==
  {[kind |-> kind, batches |-> n, bad |-> bad, reply |-> reply] :
     kind \in {"link", "page"}, n \in 1 .. MaxBatches,
     bad \in {{}} \cup {{a, b} : a, b \in 1 .. MaxBatches}, reply \in BadReplies}

poolItems(job) ==
  [i \in 1 .. job.batches * ItemsPerBatch |->
     IF job.kind = "page" THEN [url |-> i - 1] ELSE [source_url |-> i - 1]]

poolBatches(job) == createBatches(poolItems(job), ItemsPerBatch)

replyOf(job, b) == IF b \in job.bad THEN job.reply ELSE "both"

(* await this.aiService.classifyIntents(batch) / classifyPageIntent(batch) *)
classify(job, b) ==
  LET ai == AIService(TRUE, TRUE, TRUE, replyOf(job, b)) IN
  IF job.kind = "page" THEN classifyPageIntent(ai, poolBatches(job)[b])
  ELSE classifyIntents(ai, poolBatches(job)[b])

(* the debug bookkeeping after results.push: the page worker calls          *)
(* r.explanation?.substring(0, 100), which throws on an explanation that is *)
(* neither a string nor null                                                *)
bookkeepingThrows(job, batchResults) ==
  /\ job.kind = "page"
  /\ \E i \in 1 .. Len(batchResults) : ~batchResults[i].explanationIsString

Workers == 1 .. workerCount

InitPool ==
  /\ AuditIdle
  /\ NormIdle
  /\ RobotsIdle
  /\ SitemapIdle
  /\ DetectIdle
  /\ SeedIdle /\ ServerIdle
  /\ poolJob \in {job \in PoolJobs : job.bad \subseteq 1 .. job.batches
                                     /\ (job.bad = {} => job.reply = "api_error")}
  /\ LET started == IF workerCount < poolJob.batches THEN workerCount ELSE poolJob.batches
     IN /\ poolAwait = [w \in Workers |-> IF w <= started THEN w ELSE 0]
        /\ poolQueue = [k \in 1 .. poolJob.batches - started |-> started + k]
  /\ poolResults = <<>>
  /\ poolFailed = {}
  /\ poolDone = <<>>
  /\ poolReturned = FALSE

(* worker(): from the await that settles to the next await or the loop's end *)
worker(w) ==
  /\ poolAwait[w] # 0
  /\ LET b == poolAwait[w]
         batchResults == classify(poolJob, b)
     IN /\ poolResults' = poolResults \o batchResults
        /\ poolFailed' = IF bookkeepingThrows(poolJob, batchResults)
                         THEN poolFailed \cup {b} ELSE poolFailed
        /\ poolDone' = Append(poolDone, [batch |-> b, worker |-> w])
  /\ IF poolQueue # <<>>
     THEN /\ poolAwait' = [poolAwait EXCEPT ![w] = Head(poolQueue)]
          /\ poolQueue' = Tail(poolQueue)
     ELSE /\ poolAwait' = [poolAwait EXCEPT ![w] = 0]
          /\ poolQueue' = poolQueue
  /\ UNCHANGED <<auditAll, sideVars, normVars, robotsVars, smVars, detVars, poolJob, poolReturned>>

(* await Promise.all(workers); return allResults *)
processWithWorkers_return ==
  /\ ~poolReturned
  /\ \A w \in Workers : poolAwait[w] = 0
  /\ poolReturned' = TRUE
  /\ UNCHANGED <<auditAll, sideVars, normVars, robotsVars, smVars, detVars, poolJob, poolQueue,
                 poolAwait, poolResults, poolFailed, poolDone>>

NextPool ==
  \/ \E w \in Workers : worker(w)
  \/ processWithWorkers_return

SpecPool == InitPool /\ [][NextPool]_vars

(* a settled classification resumes its worker; resolved workers resolve    *)
(* Promise.all                                                              *)
SpecPoolFair == SpecPool /\ WF_vars(NextPool)

(* ------------------- the crawl over URL strings ------------------------ *)
(* Crawler.crawl with the URLs as the strings they are: the seed in the    *)
(* textual form the request gave, the link targets as normalize returns    *)
(* them.  The site has a home page "/" linking to "/a" and a page "/a"     *)
(* that may link back to "/"; the home page also holds one absolute anchor  *)
(* to "/a" under some scheme, host and port.  Every URL answers 200 with   *)
(* its page, under whatever spelling of scheme, host, port and trailing    *)
(* slash it is asked.                                                      *)
SeedStrings ==
  [scheme : {"http", "HTTP"}, host : {"x.com", "X.COM"}, port : {"", "80"},
   path : {<<>>, <<"/">>, <<"/", "a">>, <<"/", "a", "/">>},
   search : {""}, hash : {"", "#f"}]

(* new URL(href, currentPageURL) for a path-absolute href, then normalize *)
resolve(path, currentPageURL) ==
  normalize(href([parseURL(currentPageURL)[1] EXCEPT
                    !.pathname = path, !.search = "", !.hash = ""]))[1]

AbsoluteAnchors ==
  [scheme : {"http", "https"}, host : {"x.com", "y.com"}, port : {"", "8080"},
   path : {<<"/", "a">>}, search : {""}, hash : {""}]

(* the a[href] of the page served at url, each as normalize(href, url) gives it *)
anchorsOf(url, linksBack, anchor) ==
  IF stripTrailingSlash(parseURL(url)[1].pathname) = <<"/">>
  THEN <<resolve(<<"/", "a">>, url), normalize(anchor)[1]>>
  ELSE IF linksBack THEN <<resolve(<<"/">>, url)>> ELSE <<>>

(* URLNormalizer constructor: the host name of the seed, lower-cased *)
baseDomain(baseURL) == toLowerCase(parseURL(baseURL)[1].hostname)

isInternal(str, base) ==
  IF parseURL(str) = None THEN FALSE
  ELSE toLowerCase(parseURL(str)[1].hostname) = base

extractLinks(url, linksBack, anchor, base) ==
  LET hrefs == anchorsOf(url, linksBack, anchor)
  IN [i \in 1 .. Len(hrefs) |->
        [normalized |-> hrefs[i], isInternal |-> isInternal(hrefs[i], base)]]

normalizedOf(links) == [i \in 1 .. Len(links) |-> links[i].normalized]

RECURSIVE enqueueLinks(_, _, _, _)
enqueueLinks(links, i, v, q) ==
  IF i > Len(links) THEN q
  ELSE enqueueLinks(links, i + 1, v,
                    IF shouldEnqueue(v, q, links[i]) THEN Append(q, links[i]) ELSE q)

InitSeed ==
  /\ AuditIdle
  /\ NormIdle
  /\ RobotsIdle
  /\ SitemapIdle
  /\ DetectIdle
  /\ PoolIdle
  /\ ServerIdle
  /\ \E given \in SeedStrings, linksBack \in BOOLEAN, anchor \in AbsoluteAnchors :
       seedRun = [given |-> given, linksBack |-> linksBack, anchor |-> anchor,
                  baseDomain |-> baseDomain(given), pc |-> "crawl",
                  queue |-> <<given>>, visited |-> {}, pages |-> <<>>,
                  linkGraph |-> {}, issues |-> <<>>]

(* one iteration of the loop of crawl(), the page answering 200 with HTML *)
seed_crawl ==
  /\ seedRun.pc = "crawl"
  /\ Len(seedRun.queue) > 0
  /\ Len(seedRun.pages) < DefaultMaxPages
  /\ LET url == Head(seedRun.queue)
         parsed == extractLinks(url, seedRun.linksBack, seedRun.anchor, seedRun.baseDomain)
         links == normalizedOf(SelectSeq(parsed, LAMBDA link : link.isInternal))
         others == normalizedOf(SelectSeq(parsed, LAMBDA link : ~link.isInternal))
         v == markVisited(seedRun.visited, url)
         pd == [PageData(url, url) EXCEPT
                  !.resource_type = "PAGE", !.http_status = Some(200),
                  !.final_url = Some(url), !.title = "t", !.h1s = <<"h">>,
                  !.internal_outgoing_links = links,
                  !.external_outgoing_links = others]
     IN seedRun' =
          IF url \in seedRun.visited
          THEN [seedRun EXCEPT !.queue = Tail(@)]
          ELSE [seedRun EXCEPT
                  !.visited = v,
                  !.pages = mapSet(@, url, pd),
                  !.linkGraph = @ \cup {<<url, links[i]>> : i \in 1 .. Len(links)},
                  !.queue = enqueueLinks(links, 1, v, Tail(@))]
  /\ UNCHANGED <<auditAll, normVars, robotsVars, smVars, detVars, poolVars, server>>

(* the end of crawl() and phase 4 of audit(): the counts, toJSON, and the   *)
(* zero-incoming-links check with the seed the IssueDetector is given       *)
seed_detect ==
  /\ seedRun.pc = "crawl"
  /\ ~(Len(seedRun.queue) > 0 /\ Len(seedRun.pages) < DefaultMaxPages)
  /\ LET counted == buildIncomingLinkCounts(seedRun.pages, seedRun.linkGraph)
         records == [i \in 1 .. Len(counted) |-> toJSON(counted[i])]
     IN seedRun' = [seedRun EXCEPT
                      !.pc = "done",
                      !.pages = records,
                      !.issues = detectZeroIncomingLinks(records,
                                                         normalize(seedRun.given)[1])]
  /\ UNCHANGED <<auditAll, normVars, robotsVars, smVars, detVars, poolVars, server>>

NextSeed ==
  \/ seed_crawl
  \/ seed_detect

SpecSeed == InitSeed /\ [][NextSeed]_vars

(* ------------------------------ the server ----------------------------- *)
(* POST /api/audit and GET /api/audit/:auditId/result with the audits they *)
(* start.  An audit is its Auditor.audit() call: it runs its phases, then  *)
(* reports 'complete' and writes its result files, and any exception in    *)
(* the phases or in the writing (the file system is the environment) is    *)
(* reported as 'error' and rethrown.  Date.now() is the clock.             *)
MaxClock == 2

MaxAudits == 2

AuditIds == 0 .. MaxClock

NoEntry == [status |-> "none", progress |-> 0, result |-> 0, error |-> 0]

(* const auditId = Date.now().toString() *)
newAuditId(now) == now

(* the entries of activeAudits.set; progress, result and error name the audit *)
(* whose progressEvents array, result object or error message they hold       *)
runningEntry(k) == [status |-> "running", progress |-> k, result |-> 0, error |-> 0]

completedEntry(k) == [status |-> "completed", progress |-> k, result |-> k, error |-> 0]

failedEntry(k) == [status |-> "failed", progress |-> k, result |-> 0, error |-> k]

getResult_anyStatus(audit) ==
  IF audit.status = "none" THEN [code |-> 404, body |-> 0]
  ELSE [code |-> 200, body |-> audit.result]

(* GET /api/audit/:auditId/result on what activeAudits.get returned *)
getResult(audit) ==
  IF audit.status = "none" THEN [code |-> 404, body |-> 0]
  ELSE IF audit.status # "completed" THEN [code |-> 400, body |-> 0]
  ELSE [code |-> 200, body |-> audit.result]

InitServer ==
  /\ AuditIdle
  /\ NormIdle
  /\ RobotsIdle
  /\ SitemapIdle
  /\ DetectIdle
  /\ PoolIdle
  /\ SeedIdle
  /\ server = [pc |-> "listening", clock |-> 0, audits |-> <<>>,
               activeAudits |-> [id \in AuditIds |-> NoEntry],
               statusLog |-> [id \in AuditIds |-> <<>>],
               outputs |-> {},
               lastGet |-> [id |-> 0, seen |-> "none", code |-> 0, body |-> 0]]

(* a millisecond passes *)
tick ==
  /\ server.pc = "listening"
  /\ server.clock < MaxClock
  /\ server' = [server EXCEPT !.clock = @ + 1]
  /\ UNCHANGED <<auditAll, normVars, robotsVars, smVars, detVars, poolVars, seedRun>>

(* POST /api/audit with a valid url: the handler up to auditor.audit(), which *)
(* runs to its first await                                                    *)
postAudit ==
  /\ server.pc = "listening"
  /\ Len(server.audits) < MaxAudits
  /\ LET auditId == newAuditId(server.clock)
         k == Len(server.audits) + 1
     IN server' = [server EXCEPT
                     !.audits = Append(@, [id |-> auditId, pc |-> "run",
                                           events |-> <<"init">>]),
                     !.activeAudits[auditId] = runningEntry(k),
                     !.statusLog[auditId] = Append(@, "running")]
  /\ UNCHANGED <<auditAll, normVars, robotsVars, smVars, detVars, poolVars, seedRun>>

(* audit(): the phases end, with onProgress 'complete' or in the catch *)
audit_phases ==
  /\ server.pc = "listening"
  /\ \E k \in 1 .. Len(server.audits), threw \in BOOLEAN :
       /\ server.audits[k].pc = "run"
       /\ server' = [server EXCEPT
                       !.audits[k].pc = IF threw THEN "threw" ELSE "write",
                       !.audits[k].events =
                          Append(@, IF threw THEN "error" ELSE "complete")]
  /\ UNCHANGED <<auditAll, normVars, robotsVars, smVars, detVars, poolVars, seedRun>>

(* audit(): outputWriter.writeAuditResults(auditId, result), then return *)
audit_write ==
  /\ server.pc = "listening"
  /\ \E k \in 1 .. Len(server.audits), threw \in BOOLEAN :
       /\ server.audits[k].pc = "write"
       /\ server' = [server EXCEPT
                       !.audits[k].pc = IF threw THEN "threw" ELSE "returned",
                       !.audits[k].events = IF threw THEN Append(@, "error") ELSE @,
                       !.outputs = IF threw THEN @
                                   ELSE @ \cup {<<server.audits[k].id, k>>}]
  /\ UNCHANGED <<auditAll, normVars, robotsVars, smVars, detVars, poolVars, seedRun>>

(* the .then / .catch of auditor.audit() in the POST handler *)
audit_settled ==
  /\ server.pc = "listening"
  /\ \E k \in 1 .. Len(server.audits) :
       /\ server.audits[k].pc \in {"returned", "threw"}
       /\ LET auditId == server.audits[k].id
              entry == IF server.audits[k].pc = "returned"
                       THEN completedEntry(k) ELSE failedEntry(k)
          IN server' = [server EXCEPT
                          !.audits[k].pc = IF @ = "returned" THEN "completed" ELSE "failed",
                          !.activeAudits[auditId] = entry,
                          !.statusLog[auditId] = Append(@, entry.status)]
  /\ UNCHANGED <<auditAll, normVars, robotsVars, smVars, detVars, poolVars, seedRun>>

(* GET /api/audit/:auditId/result *)
getAuditResult ==
  /\ server.pc = "listening"
  /\ \E auditId \in AuditIds :
       LET audit == server.activeAudits[auditId]
           res == getResult(audit)
       IN server' = [server EXCEPT
                       !.lastGet = [id |-> auditId, seen |-> audit.status,
                                    code |-> res.code, body |-> res.body]]
  /\ UNCHANGED <<auditAll, normVars, robotsVars, smVars, detVars, poolVars, seedRun>>

NextServer ==
  \/ tick
  \/ postAudit
  \/ audit_phases
  \/ audit_write
  \/ audit_settled
  \/ getAuditResult

SpecServer == InitServer /\ [][NextServer]_vars

(* ------------------------------ claims --------------------------------- *)
NumPages(ps) == Cardinality({i \in 1 .. Len(ps) : ps[i].resource_type = "PAGE"})


AfterCrawl == pc \in {"sitemap", "sfetch", "spage", "done"}

Occurrences(seq, x) == Cardinality({i \in 1 .. Len(seq) : seq[i] = x})

(* C1: every URL is processed by the traversal loop at most once and has at
   most one Page Record; at iteration boundaries the number of records equals
   the size of the visited set *)
C1_VisitedOnce ==
  /\ \A u \in Range(crawlLog) : Occurrences(crawlLog, u) = 1
  /\ \A i, j \in 1 .. Len(pages) : pages[i].url = pages[j].url => i = j
  /\ \A i \in 1 .. Len(pages) : pages[i].url \in visited
  /\ pc = "crawl" => Len(pages) = Cardinality(visited)
  /\ pc = "crawl" => Len(crawlLog) = Len(pages)

(* a page processed later links back to a URL that was already visited *)
C1_Witness ==
  /\ pc = "crawl"
  /\ Len(pages) >= 3
  /\ \E i, j \in 1 .. Len(pages) :
       i < j /\ pages[i].url \in Range(pages[j].internal_outgoing_links)

(* C2: the budget counter equals the number of stored PAGE records (blocked
   and failed URLs included, RESOURCE records not), and that number never
   exceeds the crawler's page budget *)
C2_BudgetInCrawl ==
  /\ pc # "new" => pageCount = NumPages(pages)
  /\ pc # "new" => NumPages(pages) <= maxPages
  /\ \A i \in 1 .. Len(pages) :
       (pages[i].blocked_by_robots \/ pages[i].fetch_error # Null) => isPage(pages[i])

C2_Witness ==
  /\ pc = "crawl"
  /\ pageCount = maxPages
  /\ \E i \in 1 .. Len(pages) : isResource(pages[i])
  /\ \E i \in 1 .. Len(pages) : pages[i].fetch_error # Null

(* C3: a completed audit emits at most N records with resource_type PAGE,
   N being the page budget *)
C3_BudgetInResult ==
  pc = "done" => NumPages(resultPages) <= maxPages

(* C4: with an unlimited budget the traversal loop ends only when the queue
   is empty *)
C4_UnlimitedNoCap ==
  (req.unlimited /\ AfterCrawl) => queue = <<>>

IncomingSources(t) == {e[1] : e \in {x \in linkGraph : x[2] = t}}

LinkingPages(ps, t) ==
  {i \in 1 .. Len(ps) : t \in Range(ps[i].internal_outgoing_links)}

(* C5: after the post-traversal pass every PAGE record's
   incoming_internal_link_count is the number of distinct sources with an edge
   to it, which is the number of crawled pages that link to it (repeated links
   and a self-link count once); every other record has count 0 *)
C5_IncomingCounts ==
  AfterCrawl =>
    \A i \in 1 .. Len(pages) :
      IF isPage(pages[i])
      THEN /\ pages[i].incoming_internal_link_count =
                Cardinality(IncomingSources(pages[i].url))
           /\ pages[i].incoming_internal_link_count =
                Cardinality(LinkingPages(pages, pages[i].url))
           /\ resultPages[i].incoming_internal_link_count =
                pages[i].incoming_internal_link_count
      ELSE pages[i].incoming_internal_link_count = 0

(* a page linked from two pages, one of them itself, by repeated links, next
   to a record that is not a PAGE *)
C5_Witness ==
  /\ AfterCrawl
  /\ \E i \in 1 .. Len(pages) :
       /\ isPage(pages[i])
       /\ pages[i].incoming_internal_link_count = 2
       /\ <<pages[i].url, pages[i].url>> \in linkGraph
       /\ Occurrences(pages[i].internal_outgoing_links, 0) = 2
  /\ \E i \in 1 .. Len(pages) : isResource(pages[i])

(* the crawler's last fetch attempt is over and its record is stored *)
AttemptDone == pc = "crawl" /\ hops # <<>>

LastRecord == pages[IndexOf(pages, cur.url)]

Answered == resp # None /\ ~isRedirect(resp[1])

ChainFidelity(p) ==
  /\ p.url = hops[1]
  /\ p.redirect_chain = SubSeq(hops, 1, Len(hops) - 1)
  /\ p.final_url = Some(hops[Len(hops)])

(* C6 as claimed: when u0 -> ... -> uk ends in a non-3xx answer the record has
   redirect_chain = [u0 .. u(k-1)], final_url = uk and http_status = the status
   of uk *)
C6_RedirectFidelity ==
  (AttemptDone /\ Answered) =>
    /\ ChainFidelity(LastRecord)
    /\ LastRecord.http_status = Some(resp[1].status)

(* C6 as amended: http_status is the status of uk unless reading or parsing
   the body of an HTML answer threw, in which case it is 0 *)
C6_RedirectFidelity_amended ==
  (AttemptDone /\ Answered) =>
    /\ ChainFidelity(LastRecord)
    /\ Len(hops) - 1 <= maxRedirects
    /\ LastRecord.http_status =
         IF resp[1].html /\ ~resp[1].bodyOk THEN Some(0) ELSE Some(resp[1].status)
    /\ (Len(hops) = 1 => LastRecord.redirect_chain = <<>> /\ LastRecord.final_url = Some(LastRecord.url))

(* maxRedirects redirects, through repeated URLs, and then a 200 *)
C6_Witness ==
  /\ AttemptDone /\ Answered
  /\ Len(LastRecord.redirect_chain) = maxRedirects
  /\ LastRecord.http_status = Some(200)
  /\ LastRecord.redirect_chain[1] # LastRecord.redirect_chain[2]

CeilingRecord(p) ==
  p.fetch_error = "max_redirects_exceeded" =>
    /\ Len(p.redirect_chain) = maxRedirects + 1
    /\ p.http_status = None
    /\ p.final_url = None

(* C7: a fetch attempt makes at most maxRedirects + 1 = 6 transport calls; it
   is aborted with max_redirects_exceeded, without status or final_url, exactly
   when more than maxRedirects redirects were met *)
C7_RedirectCeiling ==
  /\ Len(hops) <= maxRedirects + 1
  /\ Len(hops) <= 6
  /\ redirectCount <= maxRedirects + 1
  /\ Len(cur.redirect_chain) = redirectCount
  /\ cur.fetch_error = "max_redirects_exceeded" <=>
       (pc \notin {"fetch", "sfetch"} /\ redirectCount > maxRedirects)
  /\ CeilingRecord(cur)
  /\ \A i \in 1 .. Len(pages) : CeilingRecord(pages[i])
  /\ \A i \in 1 .. Len(sitemapPages) : CeilingRecord(sitemapPages[i])

C7_Witness ==
  /\ pc = "crawl"
  /\ Len(hops) = maxRedirects + 1
  /\ LastRecord.fetch_error = "max_redirects_exceeded"

FetchErrors ==
  {"network_error", "max_redirects_exceeded", "exception_during_fetch",
   "unknown_fetch_failure"}

(* fetchWithRedirects returned null, or reading/parsing the HTML body threw *)
FetchFailed == resp = None \/ (resp[1].html /\ ~resp[1].bodyOk)

NoMetadataNoLinks(p) ==
  /\ p.title = Null
  /\ p.h1s = <<>>
  /\ p.meta_robots = Null
  /\ p.meta_description = Null
  /\ p.internal_outgoing_links = <<>>
  /\ p.external_outgoing_links = <<>>
  /\ ~ \E e \in linkGraph : e[1] = p.url

C8_Records ==
  /\ \A i \in 1 .. Len(pages) :
       pages[i].fetch_error # Null =>
         /\ pages[i].fetch_error \in FetchErrors
         /\ isPage(pages[i])
         /\ NoMetadataNoLinks(pages[i])
         /\ Occurrences(crawlLog, pages[i].url) = 1
         /\ pages[i].url \notin Range(pending)
         /\ \A k \in 1 .. Len(sitemapPages) : sitemapPages[k].url # pages[i].url
  /\ (AttemptDone /\ FetchFailed) => LastRecord.fetch_error # Null
  /\ (AttemptDone /\ LastRecord.fetch_error # Null) => FetchFailed

C8_Step ==
  (pc = "page" /\ FetchFailed) =>
    /\ queue' = queue
    /\ linkGraph' = linkGraph
    /\ pageCount' = pageCount + 1
    /\ visited' = visited

(* C8: a failed fetch leaves a PAGE record with a fetch_error, no metadata, no
   links, no edges and nothing enqueued, counts 1 toward the budget, and its
   URL is not processed again *)
C8_FailureSemantics == [](C8_Records) /\ [][C8_Step]_vars

(* a URL another page links to failed; it is counted and stays visited *)
C8_Witness ==
  /\ pc = "crawl"
  /\ \E i, j \in 1 .. Len(pages) :
       /\ i # j
       /\ pages[j].fetch_error \in {"network_error", "exception_during_fetch"}
       /\ pages[j].url \in Range(pages[i].internal_outgoing_links)
       /\ pages[j].url \in visited
  /\ pageCount = NumPages(pages)
  /\ pageCount = 2

HasFetchError(rec) == "fetch_error" \in DOMAIN rec /\ rec["fetch_error"] # Null

(* C9: every emitted Page Record whose fetch failed carries a non-null
   fetch_error *)
C9_FailuresAreData ==
  pc = "done" =>
    /\ \A i \in 1 .. Len(pages) :
         pages[i].fetch_error # Null => HasFetchError(resultPages[i])
    /\ \A i \in 1 .. Len(sitemapPages) :
         sitemapPages[i].fetch_error # Null => HasFetchError(resultPages[Len(pages) + i])

Denied(u) == ~isAllowed(rules, u)

LongestDisallow(rule, u) ==
  /\ rule \in Range(rules.disallow)
  /\ matchesRule(PathOf(u), rule)
  /\ \A r \in Range(rules.disallow) : matchesRule(PathOf(u), r) => Len(r) <= Len(rule)

BlockedIssues(u) ==
  {k \in 1 .. Len(issues) :
     issues[k].issue_type = "BLOCKED_BY_ROBOTS" /\ issues[k].url = u}

GatedRecord(u) ==
  LET p == pages[IndexOf(pages, u)] IN
  /\ IndexOf(pages, u) # 0
  /\ p.blocked_by_robots
  /\ p.blocked_by_robots_rule # None
  /\ LongestDisallow(p.blocked_by_robots_rule, u)
  /\ isPage(p)
  /\ pageCount = NumPages(pages)
  /\ ~ \E e \in linkGraph : e[1] = u
  /\ pc = "done" => Cardinality(BlockedIssues(u)) = 1

(* C10 as claimed: a dequeued URL the ruleset denies gets a blocked PAGE record
   with the longest matching disallow rule, counts toward the budget, is the
   source of no edge, gets exactly one BLOCKED_BY_ROBOTS issue, and no
   transport call is ever made for it *)
C10_RobotsGating ==
  \A u \in Range(crawlLog) :
    Denied(u) => (GatedRecord(u) /\ u \notin fetched)

(* what crawl() does guarantee for a denied URL: no fetch attempt is started
   for it, so its record has no status, final_url, redirect chain or error *)
RobotsGatingOwnProcessing ==
  /\ \A u \in Range(crawlLog) :
       Denied(u) =>
         /\ GatedRecord(u)
         /\ pages[IndexOf(pages, u)].http_status = None
         /\ pages[IndexOf(pages, u)].final_url = None
         /\ pages[IndexOf(pages, u)].redirect_chain = <<>>
         /\ pages[IndexOf(pages, u)].fetch_error = Null
  /\ pc \in {"fetch", "page"} => ~Denied(cur.url)
  /\ \A i \in 1 .. Len(pages) : pages[i].blocked_by_robots <=> Denied(pages[i].url)

IssuesOf(type, u) ==
  {k \in 1 .. Len(issues) : issues[k].issue_type = type /\ issues[k].url = u}

(* URLs of the sitemap set that the traversal made no record for and that no
   crawled page links to *)
Unlinked(u) ==
  /\ u \in Range(sitemapURLs)
  /\ u \notin Range(crawlLog)
  /\ \A i \in 1 .. Len(pages) : u \notin Range(pages[i].internal_outgoing_links)

(* C11: a completed audit emits exactly one SITEMAP_ORPHAN issue for every
   sitemap URL that no crawled page links to *)
C11_SitemapOrphan ==
  pc = "done" => \A u \in Urls : Unlinked(u) => Cardinality(IssuesOf("SITEMAP_ORPHAN", u)) = 1

(* what the code does: the sitemap-only phase gives every sitemap URL a
   record, so the check never reports anything *)
NoSitemapOrphanEver ==
  pc = "done" => \A k \in 1 .. Len(issues) : issues[k].issue_type # "SITEMAP_ORPHAN"

(* C12: canonicalize(canonicalize(u)) = canonicalize(u) for every URL u
   that canonicalize accepts *)
C12_Idempotent ==
  (Len(normalized) = 2 /\ normalized[1] # None) => normalized[2] = normalized[1]

StripStar(rule) ==
  IF Len(rule) > 0 /\ rule[Len(rule)] = "*" THEN SubSeq(rule, 1, Len(rule) - 1) ELSE rule

IsPrefixOf(a, b) == Len(a) <= Len(b) /\ SubSeq(b, 1, Len(a)) = a

RuleCovers(rule, path) == rule = <<"/">> \/ IsPrefixOf(StripStar(rule), path)

(* C13: isAllowed(url) is false iff no Allow rule matches pathname + search
   and at least one Disallow rule matches it, a rule matching when it is "/"
   or the path starts with it (a trailing * stripped) *)
C13_AllowDeny ==
  robotsQuery # None =>
    LET q == robotsQuery[1]
        r == robotsRules[1]
        path == PathOf(q.url)
    IN q.allowed =
         ~ (/\ \A i \in 1 .. Len(r.allow) : ~RuleCovers(r.allow[i], path)
            /\ \E i \in 1 .. Len(r.disallow) : RuleCovers(r.disallow[i], path))

(* a shorter Allow rule written after a longer matching Disallow rule *)
C13_Witness ==
  /\ robotsTxt = <<Directive("User-agent", <<"*">>),
                   Directive("Disallow", <<"/", "a", "/", "b">>),
                   Directive("Allow", <<"/", "a">>)>>
  /\ robotsQuery # None
  /\ robotsQuery[1].url = 2
  /\ robotsQuery[1].allowed

LowerName(line) == toLowerCase(line.name)

(* the most recent User-agent line before line i names exactly "*" *)
UnderWildcard(text, i) ==
  LET agents == {j \in 1 .. (i - 1) : text[j].colon /\ LowerName(text[j]) = "user-agent"}
  IN /\ agents # {}
     /\ text[CHOOSE j \in agents : \A k \in agents : k <= j].value = <<"*">>

Recorded(text, directive) ==
  {i \in 1 .. Len(text) :
     /\ text[i].colon
     /\ LowerName(text[i]) = directive
     /\ text[i].value # <<>>
     /\ UnderWildcard(text, i)}

ValuesAt(text, idx) ==
  [k \in 1 .. Cardinality(idx) |->
     text[CHOOSE i \in idx : Cardinality({j \in idx : j <= i}) = k].value]

(* C14: an Allow/Disallow value is recorded only while the most recent
   User-agent line names exactly "*"; no other directive, and no directive
   with an empty value, influences isAllowed or getDisallowRule *)
C14_ParsingScope ==
  /\ robotsRules # None =>
       /\ robotsRules[1].allow = ValuesAt(robotsTxt, Recorded(robotsTxt, "allow"))
       /\ robotsRules[1].disallow = ValuesAt(robotsTxt, Recorded(robotsTxt, "disallow"))
  /\ robotsQuery # None =>
       LET q == robotsQuery[1]
           path == PathOf(q.url)
       IN /\ ~q.allowed =>
               \E i \in Recorded(robotsTxt, "disallow") : RuleCovers(robotsTxt[i].value, path)
          /\ q.rule # None =>
               \E i \in Recorded(robotsTxt, "disallow") : robotsTxt[i].value = q.rule
          /\ (Recorded(robotsTxt, "disallow") = {}) => (q.allowed /\ q.rule = None)

(* a Disallow before every User-agent line and one under another agent:
   nothing is recorded *)
C14_Witness ==
  /\ robotsTxt = <<Directive("Disallow", <<"/", "a">>),
                   Directive("User-agent", <<"b", "o", "t">>),
                   Directive("Disallow", <<"/", "a">>)>>
  /\ robotsQuery # None
  /\ robotsQuery[1].url = 1
  /\ robotsQuery[1].allowed
  /\ robotsQuery[1].rule = None

RobotsFetchFailed ==
  robotsResponse.threw \/ robotsResponse.status < 200 \/ robotsResponse.status > 299

NoRecordBlocked ==
  /\ \A i \in 1 .. Len(pages) : ~pages[i].blocked_by_robots
  /\ \A i \in 1 .. Len(sitemapPages) : ~sitemapPages[i].blocked_by_robots
  /\ \A i \in 1 .. Len(resultPages) : ~resultPages[i].blocked_by_robots
  /\ \A k \in 1 .. Len(issues) : issues[k].issue_type # "BLOCKED_BY_ROBOTS"

C15_Ruleset ==
  (RobotsFetchFailed /\ pc # "new") =>
    /\ rules = Rules(<<>>, <<>>)
    /\ \A u \in Urls : isAllowed(rules, u) /\ getDisallowRule(rules, u) = None
    /\ NoRecordBlocked

C15_Continues == (RobotsFetchFailed /\ pc = "new") => pc' = "crawl"

(* C15: when robots.txt cannot be fetched or answers with a non-2xx status
   the audit continues with an empty ruleset: every URL is allowed, no rule
   is reported and no record is marked blocked_by_robots *)
C15_RobotsFailure == [](C15_Ruleset) /\ [][C15_Continues]_vars

(* a 404 whose body would disallow everything, and the audit done with
   fetched pages *)
C15_Witness ==
  /\ robotsResponse.status = 404
  /\ pc = "done"
  /\ Len(resultPages) >= 2
  /\ \A i \in 1 .. Len(resultPages) : resultPages[i].http_status = Some(200)

(* the URLs of the <loc> texts read successfully *)
GoodUrls ==
  {normalize(l[1])[1] : l \in {g \in smGood : g # None /\ normalize(g[1]) # None}}

(* C16: a failing sitemap document contributes no URLs for its branch only:
   what fetch() returns is exactly the URLs of the documents that were read,
   whichever documents failed before or after them; no exception reaches
   fetch(), and nothing read gives the empty list *)
C16_FailureIsolation ==
  /\ ~smRaised
  /\ Range(smUrls) = GoodUrls
  /\ smResult # None =>
       /\ Range(smResult[1]) = GoodUrls
       /\ NoRepeat(smResult[1])
       /\ (smGood = {} => smResult[1] = <<>>)

(* the second of three sibling sitemaps failed, the first and the third are
   returned *)
C16_Witness ==
  /\ smResult = Some(<<normalize(LocA)[1], normalize(LocC)[1]>>)
  /\ smFetches = 4
  /\ Len(smWeb) = 4

(* C17: sitemap resolution terminates, also on sitemap indexes that list
   themselves or each other, and no document is requested at a depth
   greater than 5 *)
C17_DepthCap == [](smDepthMax <= MaxSitemapDepth) /\ <>(smResult # None)

(* an index that lists itself twice, followed down to depth 5 on every
   branch *)
C17_Witness ==
  /\ smWeb = <<SitemapIndex(<<Some(0), Some(0)>>)>>
  /\ smResult # None
  /\ smDepthMax = MaxSitemapDepth
  /\ smFetches = 63

(* the issue lists detectAll has returned so far *)
Returned == {r[1] : r \in {detCore, detIssues} \ {None}}

(* the position of each issue type's check in detectionMethods *)
Rank(type) ==
  CASE type = "BROKEN_PAGE" -> 1
    [] type = "BROKEN_INTERNAL_LINK" -> 2
    [] type = "REDIRECT_CHAIN" -> 4
    [] type = "REDIRECT_LOOP" -> 5
    [] type = "BLOCKED_BY_ROBOTS" -> 6
    [] type = "NOINDEX_PAGE" -> 7
    [] type = "SITEMAP_ORPHAN" -> 8
    [] type = "ZERO_INCOMING_LINKS" -> 9
    [] type = "ZERO_OUTGOING_LINKS" -> 10
    [] type = "MISSING_TITLE" -> 11
    [] type = "DUPLICATE_TITLE" -> 12
    [] type = "MISSING_H1" -> 13
    [] type = "MULTIPLE_H1" -> 14
    [] type = "DUPLICATE_META_DESCRIPTION" -> 16
    [] type = "LINK_INTENT_MISMATCH" -> 18
    [] type \in {"SOFT_404", "PAGE_INTENT_MISMATCH"} -> 19

(* the checks that walk the page list and push issues about the page at hand *)
PerPageTypes ==
  {"BROKEN_PAGE", "BROKEN_INTERNAL_LINK", "REDIRECT_CHAIN", "REDIRECT_LOOP",
   "BLOCKED_BY_ROBOTS", "NOINDEX_PAGE", "ZERO_INCOMING_LINKS", "ZERO_OUTGOING_LINKS",
   "MISSING_TITLE", "MISSING_H1", "MULTIPLE_H1"}

PositionOf(u) == CHOOSE i \in 1 .. Len(detPages) : detPages[i].url = u

DeclarationOrder(is) ==
  \A i, j \in 1 .. Len(is) : i < j => Rank(is[i].issue_type) <= Rank(is[j].issue_type)

PageListOrder(is, types) ==
  \A i, j \in 1 .. Len(is) :
    i < j /\ is[i].issue_type = is[j].issue_type /\ is[i].issue_type \in types
    => PositionOf(is[i].url) <= PositionOf(is[j].url)

(* each check has run: the issues of its type are present whatever the      *)
(* checks before it found                                                   *)
PresentFor(is, type, hit) ==
  \A p \in hit : \E k \in 1 .. Len(is) : is[k].issue_type = type /\ is[k].url = p.url

Ok200 == {p \in Range(detPages) : p.resource_type = "PAGE" /\ statusOf(p) = 200}

EveryCheckRan(is) ==
  /\ PresentFor(is, "BROKEN_PAGE", {p \in Range(detPages) : statusOf(p) >= 400})
  /\ PresentFor(is, "REDIRECT_CHAIN", {p \in Range(detPages) : Len(p.redirect_chain) > 1})
  /\ PresentFor(is, "BLOCKED_BY_ROBOTS", {p \in Range(detPages) : p.blocked_by_robots})
  /\ PresentFor(is, "NOINDEX_PAGE",
                {p \in Range(detPages) : p.meta_robots = "noindex, nofollow"
                                         \/ p.x_robots_tag = "noindex"})
  /\ PresentFor(is, "ZERO_OUTGOING_LINKS", {p \in Ok200 : p.internal_outgoing_links = <<>>})
  /\ PresentFor(is, "MISSING_H1", {p \in Ok200 : p.h1s = <<>>})
  /\ PresentFor(is, "MULTIPLE_H1", {p \in Ok200 : Len(p.h1s) > 1})
  /\ PresentFor(is, "DUPLICATE_TITLE",
                {p \in Ok200 : /\ p.title \in {"t", "t2"}
                               /\ \E q \in Ok200 : q.url # p.url /\ q.title = p.title})
  /\ \A k \in 1 .. Len(detSitemap) :
       detSitemap[k] \notin {p.normalized_url : p \in Range(detPages)}
       => \E n \in 1 .. Len(is) :
            is[n].issue_type = "SITEMAP_ORPHAN" /\ is[n].url = detSitemap[k]

(* C18: detectAll runs every check in declaration order whether or not earlier
   checks found anything; the returned list is the concatenation, in declaration
   order, of each check's issues in page-list order, so that no issue of a later
   check precedes an issue of an earlier check *)
C18_IssueOrdering ==
  \A is \in Returned :
    /\ DeclarationOrder(is)
    /\ EveryCheckRan(is)
    /\ PageListOrder(is, PerPageTypes \cup {"DUPLICATE_TITLE"})

(* the first page of the list that carries the title of the page of url u *)
FirstWithTitle(u) ==
  CHOOSE i \in 1 .. Len(detPages) :
    /\ detPages[i].title = detPages[PositionOf(u)].title
    /\ detPages[i].resource_type = "PAGE" /\ statusOf(detPages[i]) = 200
    /\ \A j \in 1 .. i - 1 : ~(/\ detPages[j].title = detPages[i].title
                               /\ detPages[j].resource_type = "PAGE"
                               /\ statusOf(detPages[j]) = 200)

SitemapPosition(u) == CHOOSE k \in 1 .. Len(detSitemap) : detSitemap[k] = u

(* C18 as amended: declaration order between checks; page-list order within a
   per-page check; DUPLICATE_TITLE issues grouped by title, the titles in the
   order of their first page and the pages of one title in page-list order;
   SITEMAP_ORPHAN issues in the order of the sitemap URLs *)
C18_IssueOrdering_amended ==
  \A is \in Returned :
    /\ DeclarationOrder(is)
    /\ EveryCheckRan(is)
    /\ PageListOrder(is, PerPageTypes)
    /\ \A i, j \in 1 .. Len(is) :
         i < j /\ is[i].issue_type = "DUPLICATE_TITLE" /\ is[j].issue_type = "DUPLICATE_TITLE"
         => Before(<<FirstWithTitle(is[i].url), PositionOf(is[i].url)>>,
                   <<FirstWithTitle(is[j].url), PositionOf(is[j].url)>>)
    /\ \A i, j \in 1 .. Len(is) :
         i < j /\ is[i].issue_type = "SITEMAP_ORPHAN" /\ is[j].issue_type = "SITEMAP_ORPHAN"
         => SitemapPosition(is[i].url) < SitemapPosition(is[j].url)

(* two titles, each on two pages, interleaved in the page list: the issues of
   the first title both come before those of the second; checks before and
   after DUPLICATE_TITLE found issues and a check in between found none *)
C18_Witness ==
  /\ detIssues # None
  /\ Len(detPages) = 4
  /\ \E i, j \in 1 .. Len(detIssues[1]) :
       /\ i < j
       /\ detIssues[1][i].issue_type = "DUPLICATE_TITLE"
       /\ detIssues[1][j].issue_type = "DUPLICATE_TITLE"
       /\ PositionOf(detIssues[1][i].url) > PositionOf(detIssues[1][j].url)
  /\ \E k \in 1 .. Len(detIssues[1]) : detIssues[1][k].issue_type = "SITEMAP_ORPHAN"
  /\ \E k \in 1 .. Len(detIssues[1]) : detIssues[1][k].issue_type = "MULTIPLE_H1"
  /\ \A k \in 1 .. Len(detIssues[1]) : detIssues[1][k].issue_type # "MISSING_TITLE"

AIKinds == {"LINK_INTENT_MISMATCH", "SOFT_404", "PAGE_INTENT_MISMATCH"}

(* C19: for the same Page Records and sitemap set, the issue list produced
   without an AIService (or with a disabled one) is the prefix of core issues of
   the list produced with it enabled; enabling AI only appends issues of AI
   kinds after all core issues, whatever the provider returns or however it
   fails *)
C19_AIIndependence ==
  detCore # None /\ detIssues # None
  => LET off == detCore[1]
         on == detIssues[1]
     IN /\ Len(off) <= Len(on)
        /\ SubSeq(on, 1, Len(off)) = off
        /\ \A k \in 1 .. Len(off) : off[k].issue_type \notin AIKinds
        /\ \A k \in Len(off) + 1 .. Len(on) : on[k].issue_type \in AIKinds
        /\ ~aiEnabled(detAI) => on = off
        /\ detAI # NoAIService /\ detAI.reply \in Unparsed => on = off

(* an enabled service whose provider flags pages, over records that have core
   issues: the AI issues follow the unchanged core issues *)
C19_Witness ==
  /\ detCore # None
  /\ detIssues # None
  /\ aiEnabled(detAI)
  /\ detAI.reply = "both"
  /\ Len(detCore[1]) > 2
  /\ Len(detIssues[1]) > Len(detCore[1]) + 1
  /\ detIssues[1][Len(detCore[1]) + 1].issue_type = "SOFT_404"

(* the batch a result came from *)
BatchOfResult(r) ==
  (IF "url" \in DOMAIN r THEN r.url ELSE r.source_url) \div ItemsPerBatch + 1

ResultsFrom(b) ==
  Cardinality({k \in 1 .. Len(poolResults) : BatchOfResult(poolResults[k]) = b})

Settled == {poolDone[k].batch : k \in 1 .. Len(poolDone)}

(* the batches whose classification threw or returned what the parser rejects, *)
(* and the batches the worker recorded as failed                              *)
FailedBatches ==
  {b \in poolJob.bad : poolJob.reply \in Unparsed} \cup poolFailed

BatchesIsolated ==
  /\ \A b \in FailedBatches : ResultsFrom(b) = 0
  /\ \A b \in Settled \ FailedBatches : ResultsFrom(b) = ItemsPerBatch
  /\ \A i, j \in 1 .. Len(poolDone) : poolDone[i].batch = poolDone[j].batch => i = j
  /\ poolReturned => Settled = 1 .. poolJob.batches

(* the worker whose batch failed takes the next batch of the queue *)
WorkerGoesOn ==
  \A w \in Workers :
    poolAwait[w] \in poolJob.bad /\ poolAwait'[w] # poolAwait[w] /\ poolQueue # <<>>
    => poolAwait'[w] = Head(poolQueue)

(* C20: a batch whose classification throws or returns a malformed response
   contributes zero results; the worker that took it goes on to take further
   batches, the other workers are unaffected, every remaining batch is still
   processed, and the run returns normally with the results of the successful
   batches *)
C20_BatchIsolation ==
  /\ [](BatchesIsolated)
  /\ [][WorkerGoesOn]_vars
  /\ <>(poolReturned)

(* what holds of the pools: no failure stops a worker or the run, every batch is
   settled exactly once, and every batch the provider answered well delivers all
   its results *)
PoolNeverHalts ==
  /\ [](\A b \in Settled \ FailedBatches : ResultsFrom(b) = ItemsPerBatch)
  /\ [](\A i, j \in 1 .. Len(poolDone) : poolDone[i].batch = poolDone[j].batch => i = j)
  /\ [](poolReturned => Settled = 1 .. poolJob.batches)
  /\ [][WorkerGoesOn]_vars
  /\ <>(poolReturned)

(* a failed batch was settled by a worker that then settled a later batch *)
PoolReuseReached ==
  /\ poolReturned
  /\ \E i, j \in 1 .. Len(poolDone) :
       /\ i < j
       /\ poolDone[i].worker = poolDone[j].worker
       /\ poolDone[i].batch \in poolJob.bad

(* the record's redirects came back to a URL they had already left *)
Loops(p) ==
  \/ \E i, j \in 1 .. Len(p.redirect_chain) : i # j /\ p.redirect_chain[i] = p.redirect_chain[j]
  \/ \E i \in 1 .. Len(p.redirect_chain) : p.final_url = Some(p.redirect_chain[i])

(* C21: a REDIRECT_LOOP issue is emitted for a record iff its redirect_chain
   holds a URL twice or its final_url is in its redirect_chain; a looping record
   gets exactly one such issue, attributed to the enqueued URL of the record *)
C21_RedirectLoop ==
  pc = "done"
  => /\ \A i \in 1 .. Len(resultPages) :
          Cardinality(IssuesOf("REDIRECT_LOOP", resultPages[i].url))
            = IF Loops(resultPages[i]) THEN 1 ELSE 0
     /\ \A k \in 1 .. Len(issues) :
          issues[k].issue_type = "REDIRECT_LOOP"
          => \E i \in 1 .. Len(resultPages) : resultPages[i].url = issues[k].url

(* A -> B -> A, then A answers: no URL is twice in the chain, the final URL is *)
C21_Witness ==
  /\ pc = "done"
  /\ \E i \in 1 .. Len(resultPages) :
       /\ resultPages[i].url = 1
       /\ resultPages[i].redirect_chain = <<1, 2>>
       /\ resultPages[i].final_url = Some(1)
       /\ resultPages[i].http_status = Some(200)
       /\ Cardinality(IssuesOf("REDIRECT_LOOP", 1)) = 1
  /\ \E i \in 1 .. Len(resultPages) :
       resultPages[i].redirect_chain = <<>> /\ IssuesOf("REDIRECT_LOOP", resultPages[i].url) = {}

BrokenLinkIssues(p, t) ==
  {k \in 1 .. Len(issues) : /\ issues[k].issue_type = "BROKEN_INTERNAL_LINK"
                            /\ issues[k].url = p.url
                            /\ issues[k].target_url = t}

BrokenRecord(t) ==
  \E j \in 1 .. Len(resultPages) :
    /\ resultPages[j].normalized_url = t
    /\ resultPages[j].http_status # None
    /\ resultPages[j].http_status[1] >= 400

(* C22: for each page p and each distinct internal target t of p there is
   exactly one BROKEN_INTERNAL_LINK issue (p, t) when t's record has a status
   >= 400 and none otherwise; each record with a status >= 400 has exactly one
   BROKEN_PAGE issue *)
C22_BrokenLinks ==
  pc = "done"
  => \A i \in 1 .. Len(resultPages) :
       /\ \A t \in Range(resultPages[i].internal_outgoing_links) :
            Cardinality(BrokenLinkIssues(resultPages[i], t))
              = IF BrokenRecord(t) THEN 1 ELSE 0
       /\ Cardinality(IssuesOf("BROKEN_PAGE", resultPages[i].url))
            = IF BrokenRecord(resultPages[i].normalized_url) THEN 1 ELSE 0

(* what the detector does emit: one BROKEN_INTERNAL_LINK issue per anchor *)
BrokenLinksPerAnchor ==
  pc = "done"
  => \A i \in 1 .. Len(resultPages) :
       /\ \A t \in Range(resultPages[i].internal_outgoing_links) :
            Cardinality(BrokenLinkIssues(resultPages[i], t))
              = IF BrokenRecord(t)
                THEN Occurrences(resultPages[i].internal_outgoing_links, t) ELSE 0
       /\ Cardinality(IssuesOf("BROKEN_PAGE", resultPages[i].url))
            = IF BrokenRecord(resultPages[i].normalized_url) THEN 1 ELSE 0

(* the records of the page list that share the title of the record at i and
   have resource_type PAGE and http_status 200 *)
TitleGroup(i) ==
  {j \in 1 .. Len(detPages) :
     /\ detPages[j].title = detPages[i].title
     /\ detPages[j].title \notin {Null, ""}
     /\ detPages[j].resource_type = "PAGE"
     /\ detPages[j].http_status = Some(200)
     /\ detPages[i].resource_type = "PAGE"
     /\ detPages[i].http_status = Some(200)}

DuplicateTitleIssues(is, u) ==
  {k \in 1 .. Len(is) : is[k].issue_type = "DUPLICATE_TITLE" /\ is[k].url = u}

(* C23: every group of k >= 2 records with resource_type PAGE and http_status
   200 that share a non-empty title yields exactly k DUPLICATE_TITLE issues, one
   per affected URL, each carrying all k affected URLs; a title held by one such
   record yields no issue *)
C23_DuplicateTitle ==
  \A is \in Returned :
    \A i \in 1 .. Len(detPages) :
      IF Cardinality(TitleGroup(i)) >= 2
      THEN /\ Cardinality(DuplicateTitleIssues(is, detPages[i].url)) = 1
           /\ \A k \in DuplicateTitleIssues(is, detPages[i].url) :
                /\ Range(is[k].all_urls) = {detPages[j].url : j \in TitleGroup(i)}
                /\ Len(is[k].all_urls) = Cardinality(TitleGroup(i))
                /\ is[k].duplicate_count = Cardinality(TitleGroup(i))
      ELSE DuplicateTitleIssues(is, detPages[i].url) = {}

(* a title shared by three pages next to a title held by a single page *)
C23_Witness ==
  /\ detIssues # None
  /\ \E i \in 1 .. Len(detPages) : Cardinality(TitleGroup(i)) = 3
  /\ \E i \in 1 .. Len(detPages) : Cardinality(TitleGroup(i)) = 1
  /\ Cardinality({k \in 1 .. Len(detIssues[1]) :
                    detIssues[1][k].issue_type = "DUPLICATE_TITLE"}) = 3

(* ---- C24 ---- *)
(* the record created for the seed: the first one, under the string given *)
SeedRecordIssues ==
  {i \in 1 .. Len(seedRun.issues) :
     /\ seedRun.issues[i].issue_type = "ZERO_INCOMING_LINKS"
     /\ seedRun.issues[i].url = seedRun.given}

(* C24: a ZERO_INCOMING_LINKS issue is never emitted for the seed page's   *)
(* own record, whatever textual form the seed URL was given in, even when  *)
(* no crawled page links back to it.                                       *)
C24_SeedExemption ==
  seedRun.pc = "done" => SeedRecordIssues = {}

(* the exemption does hold for a seed given in its canonical form *)
CanonicalSeedExempt ==
  (seedRun.pc = "done" /\ normalize(seedRun.given)[1] = seedRun.given)
    => SeedRecordIssues = {}

CanonicalSeedReached ==
  /\ seedRun.pc = "done"
  /\ normalize(seedRun.given)[1] = seedRun.given
  /\ ~seedRun.linksBack
  /\ seedRun.pages[1].incoming_internal_link_count = 0

(* ---- C25 ---- *)
(* fetchWithRedirects has returned and fetchPage has not yet used the result *)
AttemptEnded == pc \in {"page", "spage"}

(* the site redirects 1 and 2 to each other for longer than the ceiling lasts *)
OnRedirectCycle ==
  /\ site.redirectTo = "swap"
  /\ site.hopLimit > maxRedirects
  /\ cur.url \in site.redirecting

OtherOf(u) == IF u = 1 THEN 2 ELSE 1

(* C25: redirect following never stops because the next target is already in
   the redirect chain: an attempt ends only on a non-redirect answer (or a 3xx
   without usable Location), a transport failure, or the ceiling; on the cycle
   A -> B -> A with the default ceiling the record ends with redirect_chain =
   [A, B, A, B, A, B] and fetch_error = max_redirects_exceeded *)
C25_NoLoopDetection ==
  /\ AttemptEnded
     => \/ resp # None /\ ~(isRedirect(resp[1]) /\ resp[1].location # None
                             /\ resp[1].locationValid)
        \/ resp = None /\ cur.fetch_error = "network_error"
        \/ resp = None /\ cur.fetch_error = "max_redirects_exceeded"
                       /\ redirectCount = maxRedirects + 1
  /\ (AttemptEnded /\ OnRedirectCycle)
     => /\ cur.redirect_chain
             = <<cur.url, OtherOf(cur.url), cur.url, OtherOf(cur.url), cur.url,
                 OtherOf(cur.url)>>
        /\ cur.fetch_error = "max_redirects_exceeded"
        /\ hops = cur.redirect_chain
  /\ (pc \in {"fetch", "sfetch"} /\ OnRedirectCycle)
     => \A i \in 1 .. Len(cur.redirect_chain) :
          cur.redirect_chain[i] = IF i % 2 = 1 THEN cur.url ELSE OtherOf(cur.url)

C25_Witness ==
  /\ AttemptEnded
  /\ OnRedirectCycle
  /\ cur.url = 1
  /\ cur.redirect_chain = <<1, 2, 1, 2, 1, 2>>
  /\ cur.fetch_error = "max_redirects_exceeded"

(* ---- C26 ---- *)
(* C26: at every step of the traversal the queue holds no URL twice and no URL
   that is already in visited; so the URL at the head of the queue is never one
   the loop skips as already visited, and every dequeue creates a record (one
   'crawling' entry per visited URL) *)
C26_QueueInvariant ==
  /\ NoRepeat(queue)
  /\ \A i \in 1 .. Len(queue) : queue[i] \notin visited
  /\ (pc = "crawl" /\ Len(queue) > 0) => Head(queue) \notin visited
  /\ Len(crawlLog) = Cardinality(visited)
  /\ pc = "crawl" => Len(pages) = Len(crawlLog)

(* page 1 of the fan site links to the visited 0 (twice), to itself and to *)
(* the already queued 2: none of them is enqueued again                     *)
C26_Witness ==
  /\ pc = "crawl"
  /\ visited = {0, 1}
  /\ queue = <<2>>
  /\ Occurrences(LastRecord.internal_outgoing_links, 0) = 2
  /\ Occurrences(LastRecord.internal_outgoing_links, 1) = 1
  /\ Occurrences(LastRecord.internal_outgoing_links, 2) = 1

(* ---- C27 ---- *)
IsPrefix(a, b) == Len(a) <= Len(b) /\ \A i \in 1 .. Len(a) : a[i] = b[i]

(* the URLs of the records the traversal has created, in creation order: the *)
(* stored ones, then the one whose fetch attempt is in progress              *)
CreatedOrder ==
  [i \in 1 .. Len(pages) |-> pages[i].url]
    \o (IF pc \in {"fetch", "page"} THEN <<cur.url>> ELSE <<>>)

(* C27: Page Records are created in exactly the order in which their URLs were
   first enqueued (FIFO, starting with the seed); at most one record is between
   creation and storage, so one fetch attempt is in progress at a time; and the
   'crawling' progress events are emitted in that same order, one per record *)
C27_DiscoveryOrder ==
  /\ NoRepeat(enqueued)
  /\ enqueued # <<>> => enqueued[1] = seedURL
  /\ IsPrefix(CreatedOrder, enqueued)
  /\ crawlLog = CreatedOrder
  /\ pc \in {"fetch", "page"}
     => /\ Len(crawlLog) = Len(pages) + 1
        /\ \A i \in 1 .. Len(pages) : pages[i].url # cur.url
  /\ AfterCrawl => IsPrefix(crawlLog, [i \in 1 .. Len(resultPages) |-> resultPages[i].url])

(* the budget ended the crawl with a discovered URL still waiting *)
C27_Witness ==
  /\ pc = "crawl"
  /\ enqueued = <<0, 1, 2>>
  /\ crawlLog = <<0, 1>>
  /\ Len(pages) = 2
  /\ queue = <<2>>

(* ---- C28 ---- *)
SameTarget(a, b) == normalize(a)[1] = normalize(b)[1]

(* C28: no two Page Records emitted by one run have url values whose         *)
(* canonical forms are byte-equal                                            *)
C28_OneRecordPerTarget ==
  seedRun.pc = "done"
  => \A i, j \in 1 .. Len(seedRun.pages) :
       i # j => ~SameTarget(seedRun.pages[i].url, seedRun.pages[j].url)

(* it holds when the seed is given in canonical form *)
CanonicalSeedOneRecord ==
  (seedRun.pc = "done" /\ normalize(seedRun.given)[1] = seedRun.given)
  => \A i, j \in 1 .. Len(seedRun.pages) :
       i # j => ~SameTarget(seedRun.pages[i].url, seedRun.pages[j].url)

CanonicalSeedCrawled ==
  /\ seedRun.pc = "done"
  /\ normalize(seedRun.given)[1] = seedRun.given
  /\ seedRun.linksBack
  /\ Len(seedRun.pages) = 2

(* ---- C29 ---- *)
Origin(str) ==
  LET url == parseURL(str)[1] IN <<url.protocol, url.hostname, url.port>>

SameOrigin(str) == Origin(str) = Origin(seedRun.given)

SameHost(str) == parseURL(str)[1].hostname = parseURL(seedRun.given)[1].hostname

SeedPages == IF seedRun.pc = "idle" THEN <<>> ELSE seedRun.pages

(* C29: a discovered link is classified internal (and so graphed and enqueued)
   iff its scheme, host and port equal those of the seed; a URL that differs
   from the seed only in scheme or port is classified external *)
C29_SameOrigin ==
  \A i \in 1 .. Len(SeedPages) :
    LET page == SeedPages[i] IN
      /\ \A k \in 1 .. Len(page.internal_outgoing_links) :
           SameOrigin(page.internal_outgoing_links[k])
      /\ \A k \in 1 .. Len(page.external_outgoing_links) :
           ~SameOrigin(page.external_outgoing_links[k])

(* what the code does: classification by host name alone *)
ClassifiedByHost ==
  /\ \A i \in 1 .. Len(SeedPages) :
       LET page == SeedPages[i] IN
         /\ \A k \in 1 .. Len(page.internal_outgoing_links) :
              SameHost(page.internal_outgoing_links[k])
         /\ \A k \in 1 .. Len(page.external_outgoing_links) :
              ~SameHost(page.external_outgoing_links[k])
  /\ seedRun.pc # "idle"
     => /\ \A e \in seedRun.linkGraph : SameHost(e[2])
        /\ \A k \in 1 .. Len(seedRun.queue) : SameHost(seedRun.queue[k])

OtherOriginCrawled ==
  /\ seedRun.pc = "done"
  /\ \E i \in 1 .. Len(seedRun.pages) :
       /\ ~SameOrigin(seedRun.pages[i].url)
       /\ seedRun.pages[i].http_status = Some(200)

OtherHostExternal ==
  /\ seedRun.pc = "done"
  /\ \E i \in 1 .. Len(seedRun.pages) : seedRun.pages[i].external_outgoing_links # <<>>

(* ---- C30 ---- *)
(* the workers suspended in a classification call, and their batches *)
InFlight == {w \in Workers : poolAwait[w] # 0}

InFlightBatches == {poolAwait[w] : w \in InFlight}

PoolSize ==
  IF workerCount < poolJob.batches THEN workerCount ELSE poolJob.batches

OnePerBatch ==
  /\ Cardinality(InFlight) <= PoolSize
  /\ \A v, w \in InFlight : poolAwait[v] = poolAwait[w] => v = w
  /\ NoRepeat(poolQueue)
  /\ \A i, j \in 1 .. Len(poolDone) : poolDone[i].batch = poolDone[j].batch => i = j
  /\ Settled \cap InFlightBatches = {}
  /\ Settled \cap Range(poolQueue) = {}
  /\ InFlightBatches \cap Range(poolQueue) = {}
  /\ Settled \cup InFlightBatches \cup Range(poolQueue) = 1 .. poolJob.batches

ReturnsWhenDrained ==
  poolReturned => /\ poolQueue = <<>>
                  /\ InFlight = {}
                  /\ Settled = 1 .. poolJob.batches

(* C30: at most min(5, number of batches) classification calls are in flight;
   every batch is taken from the shared queue by exactly one worker and sent
   exactly once; the call returns only after the queue is empty and every
   in-flight batch has finished, with the result list holding exactly the
   results of all batches that succeeded *)
C30_WorkerPool ==
  /\ OnePerBatch
  /\ ReturnsWhenDrained
  /\ poolReturned
     => \A b \in 1 .. poolJob.batches :
          ResultsFrom(b) = IF b \in FailedBatches THEN 0 ELSE ItemsPerBatch

(* what holds: the discipline, and on return the results of exactly the     *)
(* batches whose reply was parsed                                           *)
PoolDiscipline ==
  /\ OnePerBatch
  /\ ReturnsWhenDrained
  /\ poolReturned
     => \A b \in 1 .. poolJob.batches :
          ResultsFrom(b) = IF b \in poolJob.bad /\ poolJob.reply \in Unparsed
                           THEN 0 ELSE ItemsPerBatch

FullPoolReached ==
  /\ poolJob.batches = MaxBatches
  /\ Cardinality(InFlight) = workerCount
  /\ Len(poolDone) = 1
  /\ poolQueue = <<>>

PoolDrained ==
  /\ poolReturned
  /\ poolJob.batches = MaxBatches
  /\ poolJob.bad # {}
  /\ poolJob.reply \in Unparsed
  /\ Len(poolResults) = (MaxBatches - Cardinality(poolJob.bad)) * ItemsPerBatch

(* ---- C31 ---- *)
UrlsOf(ps) == [i \in 1 .. Len(ps) |-> ps[i].url]

(* a step of the sitemap-only phase: the traversal's graph, queue, visited  *)
(* set and records, counts included, stay as crawl() returned them          *)
SitemapPhaseFrame ==
  AfterCrawl
  => /\ linkGraph' = linkGraph
     /\ queue' = queue
     /\ visited' = visited
     /\ pages' = pages
     /\ SubSeq(resultPages', 1, Len(pages)) = SubSeq(resultPages, 1, Len(pages))

SitemapRecordsFresh ==
  AfterCrawl
  => /\ Len(resultPages) >= Len(pages)
     /\ \A i \in 1 .. Len(pages) : resultPages[i] = toJSON(pages[i])
     /\ NoRepeat(UrlsOf(sitemapPages))
     /\ \A k \in 1 .. Len(sitemapPages) :
          /\ sitemapPages[k].url \in Range(sitemapURLs)
          /\ sitemapPages[k].url \notin Range(UrlsOf(pages))
          /\ sitemapPages[k].discovery_method = "SITEMAP_ONLY"
     /\ pc = "sfetch" => /\ cur.url \notin Range(UrlsOf(pages))
                         /\ cur.url \notin Range(UrlsOf(sitemapPages))
     /\ pc = "done"
        => /\ UrlsOf(sitemapPages)
                = SelectSeq(sitemapURLs, LAMBDA u : u \notin Range(UrlsOf(pages)))
           /\ UrlsOf(resultPages) = UrlsOf(pages) \o UrlsOf(sitemapPages)
           /\ NoRepeat(UrlsOf(resultPages))

(* C31: the sitemap-only fetch phase leaves the Link Graph and the
   incoming_internal_link_count of every spider-crawled record unchanged, never
   enqueues or follows the links it discovers, handles each sitemap-only URL
   exactly once, and adds records only for URLs without a spider record: the
   merge overwrites and duplicates nothing *)
C31_SitemapGraphNeutral ==
  /\ [][SitemapPhaseFrame]_vars
  /\ [](SitemapRecordsFresh)

(* a sitemap-only page was fetched and its links were found, none queued *)
C31_Witness ==
  /\ pc = "done"
  /\ Len(pages) > 0
  /\ linkGraph # {}
  /\ \E k \in 1 .. Len(sitemapPages) :
       /\ sitemapPages[k].http_status = Some(200)
       /\ sitemapPages[k].internal_outgoing_links # <<>>
       /\ \E i \in 1 .. Len(sitemapPages[k].internal_outgoing_links) :
            <<sitemapPages[k].url, sitemapPages[k].internal_outgoing_links[i]>>
              \notin linkGraph

(* ---- C32 ---- *)
(* the records of audit(): crawlResult.pages, which the IssueDetector hands *)
(* to the link-intent pipeline                                             *)
HandedToPipeline == resultPages

(* C32: for every crawled PAGE whose parse yielded k > 0 content links, the
   record handed to the link-intent pipeline still carries those k
   content_internal_links, so collectContentLinks returns them; the 'no content
   links found' exit is taken only when no crawled page had any content link *)
C32_ContentLinksReachAI ==
  pc = "done"
  => /\ \A i \in 1 .. Len(pages) :
          Len(pages[i].content_internal_links) > 0
          => contentLinksOf(HandedToPipeline[i]) = pages[i].content_internal_links
     /\ collectContentLinks(HandedToPipeline) = <<>>
        => \A i \in 1 .. Len(pages) : pages[i].content_internal_links = <<>>

(* what holds: no record handed to the pipeline carries a content link *)
ContentLinksDropped ==
  pc = "done"
  => /\ \A i \in 1 .. Len(HandedToPipeline) : contentLinksOf(HandedToPipeline[i]) = <<>>
     /\ collectContentLinks(HandedToPipeline) = <<>>

ContentLinksParsed ==
  /\ pc = "done"
  /\ \E i \in 1 .. Len(pages) : Len(pages[i].content_internal_links) > 1
  /\ \E k \in 1 .. Len(sitemapPages) : Len(sitemapPages[k].content_internal_links) > 0

(* ---- C33 ---- *)
GraphSources == {e[1] : e \in linkGraph}

TargetsOf(u) == {e[2] : e \in {d \in linkGraph : d[1] = u}}

(* what holds of the audits over canonical URLs: graph and records agree, and *)
(* a URL of another host is never an edge target                             *)
GraphMatchesRecords ==
  AfterCrawl
  => /\ GraphSources
          = {pages[i].url : i \in {j \in 1 .. Len(pages) :
                                     pages[j].internal_outgoing_links # <<>>}}
     /\ \A i \in 1 .. Len(pages) :
          /\ TargetsOf(pages[i].url) = Range(pages[i].internal_outgoing_links)
          /\ pages[i].internal_outgoing_links # <<>>
             => isPage(pages[i]) /\ ~pages[i].blocked_by_robots
     /\ \A e \in linkGraph :
          /\ e[2] # ExternalUrl
          /\ \A i \in 1 .. Len(pages) :
               ExternalUrl \notin Range(pages[i].internal_outgoing_links)

(* a record reached through a redirect is the source of its page's links, next *)
(* to a record with an external link and one without any edge                 *)
GraphMatchesRecordsReached ==
  /\ AfterCrawl
  /\ \E i \in 1 .. Len(pages) :
       /\ pages[i].redirect_chain # <<>>
       /\ pages[i].final_url # Some(pages[i].url)
       /\ pages[i].internal_outgoing_links # <<>>
       /\ pages[i].final_url[1] \notin GraphSources
  /\ \E i \in 1 .. Len(pages) : ExternalUrl \in Range(pages[i].external_outgoing_links)
  /\ \E i \in 1 .. Len(pages) : pages[i].url \notin GraphSources

SeedGraphSources == {e[1] : e \in seedRun.linkGraph}

SeedTargetsOf(u) == {e[2] : e \in {d \in seedRun.linkGraph : d[1] = u}}

(* C33: when traversal ends, the sources of the Link Graph are exactly the
   stored records with at least one internal outgoing link, each a non-blocked
   PAGE record keyed by its enqueued URL (never a redirect target); for each,
   linkGraph[url] is the set of distinct entries of its internal_outgoing_links;
   no external URL is an edge target *)
C33_GraphConsistency ==
  seedRun.pc = "done"
  => /\ SeedGraphSources
          = {seedRun.pages[i].url : i \in {j \in 1 .. Len(seedRun.pages) :
                                            seedRun.pages[j].internal_outgoing_links # <<>>}}
     /\ \A i \in 1 .. Len(seedRun.pages) :
          /\ SeedTargetsOf(seedRun.pages[i].url)
               = Range(seedRun.pages[i].internal_outgoing_links)
          /\ seedRun.pages[i].internal_outgoing_links # <<>>
             => /\ seedRun.pages[i].resource_type = "PAGE"
                /\ ~seedRun.pages[i].blocked_by_robots
     /\ \A e \in seedRun.linkGraph : SameOrigin(e[2])

(* all of it but the last part holds of the crawl over URL strings too *)
SeedGraphMatchesRecords ==
  seedRun.pc = "done"
  => /\ SeedGraphSources
          = {seedRun.pages[i].url : i \in {j \in 1 .. Len(seedRun.pages) :
                                            seedRun.pages[j].internal_outgoing_links # <<>>}}
     /\ \A i \in 1 .. Len(seedRun.pages) :
          SeedTargetsOf(seedRun.pages[i].url)
            = Range(seedRun.pages[i].internal_outgoing_links)
     /\ \A e \in seedRun.linkGraph : SameHost(e[2])

(* ---- C34 ---- *)
Unrecorded == {e[2] : e \in linkGraph} \ Range(UrlsOf(pages))

(* C34: if the traversal ends with the queue empty, every URL that is the target
   of a Link Graph edge has a Page Record; a discovered internal link is left
   without a record only when the page budget stopped the run *)
C34_CrawlComplete ==
  AfterCrawl
  => /\ queue = <<>> => Unrecorded = {}
     /\ Unrecorded # {} => pageCount >= maxPages
     /\ Unrecorded \subseteq Range(queue)

(* the whole site was crawled, resources and failures included *)
C34_Witness ==
  /\ AfterCrawl
  /\ queue = <<>>
  /\ Cardinality(linkGraph) > 2
  /\ Len(pages) = NumUrls
  /\ pageCount < maxPages
  /\ \E i \in 1 .. Len(pages) : ~isPage(pages[i])

BudgetStopReached ==
  /\ AfterCrawl
  /\ Unrecorded # {}
  /\ pageCount = maxPages

(* ---- C35 ---- *)
ZeroIncomingUrls ==
  {issues[k].url : k \in {j \in 1 .. Len(issues) :
                            issues[j].issue_type = "ZERO_INCOMING_LINKS"}}

Targeted(u) == \E e \in linkGraph : e[2] = u

(* C35: in a completed audit a ZERO_INCOMING_LINKS issue is emitted for URL u
   only if no edge of the emitted Link Graph targets u, also when u's record
   was added by the sitemap-only fetch after a budget-limited crawl *)
C35_ZeroIncomingSound ==
  pc = "done" => \A u \in ZeroIncomingUrls : ~Targeted(u)

(* what holds: the spider's records are never flagged (each was discovered  *)
(* through a link of a page, the seed is exempt); the flagged records are   *)
(* those the sitemap-only fetch added as PAGE and not blocked               *)
ZeroIncomingIsSitemapOnly ==
  pc = "done"
  => /\ ZeroIncomingUrls \cap Range(UrlsOf(pages)) = {}
     /\ ZeroIncomingUrls
          = {sitemapPages[k].url : k \in {j \in 1 .. Len(sitemapPages) :
                                            /\ isPage(sitemapPages[j])
                                            /\ ~sitemapPages[j].blocked_by_robots}}

UntargetedFlagged ==
  /\ pc = "done"
  /\ linkGraph # {}
  /\ \E u \in ZeroIncomingUrls : ~Targeted(u)

(* ---- C36 ---- *)
(* the traversal loop is over: crawl() has run its count pass and returned *)
CountPassOnce == AfterCrawl => (AfterCrawl' /\ pages' = pages)

(* C36: with a finite page budget N the traversal loop always terminates, also
   on a site with more URLs than the budget and when responses are resources
   or failures: at most N PAGE records are processed; after the loop the count
   pass runs once, and the traversal is not entered again *)
C36_TraversalTerminates ==
  /\ <>[](AfterCrawl)
  /\ [](pc = "crawl" => NumPages(pages) <= maxPages)
  /\ [](pageCount <= maxPages)
  /\ [][CountPassOnce]_vars

(* the budget stopped the crawl of the chain with URLs still queued *)
C36_Witness ==
  /\ AfterCrawl
  /\ site.graph = "chain"
  /\ queue # <<>>
  /\ pageCount = maxPages
  /\ maxPages = MaxBudget

(* ---- C37 ---- *)
ServerUp == server.pc = "listening"

Audits == IF ServerUp THEN server.audits ELSE <<>>

AuditsWithId(id) == {k \in 1 .. Len(Audits) : Audits[k].id = id}

StatusLogs == {<<"running">>, <<"running", "completed">>, <<"running", "failed">>}

(* C37: for an audit ID that is not reused, the stored status starts as running
   and changes at most once, to completed (result set, error null) or to failed
   (error set, result null), never back to running; GET /api/audit/:id/result
   returns a result only while the status is completed, 404 for an unknown ID
   and 400 for a running or failed audit *)
C37_StatusMachine ==
  ServerUp
  => /\ \A id \in AuditIds :
          Cardinality(AuditsWithId(id)) = 1
          => LET k == CHOOSE j \in AuditsWithId(id) : TRUE
                 entry == server.activeAudits[id]
             IN /\ server.statusLog[id] \in StatusLogs
                /\ entry.status = server.statusLog[id][Len(server.statusLog[id])]
                /\ entry.progress = k
                /\ entry.status = "running" => entry.result = 0 /\ entry.error = 0
                /\ entry.status = "completed" => entry.result = k /\ entry.error = 0
                /\ entry.status = "failed" => entry.result = 0 /\ entry.error = k
     /\ \A id \in AuditIds :
          AuditsWithId(id) = {} => server.activeAudits[id] = NoEntry
     /\ server.lastGet.code # 0
        => /\ server.lastGet.code = 200 <=> server.lastGet.seen = "completed"
           /\ server.lastGet.code = 404 <=> server.lastGet.seen = "none"
           /\ server.lastGet.code = 400 <=> server.lastGet.seen \in {"running", "failed"}
           /\ server.lastGet.body # 0 <=> server.lastGet.code = 200

(* one audit failed and was asked for (400), another completed *)
C37_Witness ==
  /\ ServerUp
  /\ server.lastGet.code = 400
  /\ server.lastGet.seen = "failed"
  /\ \E id \in AuditIds :
       /\ Cardinality(AuditsWithId(id)) = 1
       /\ server.statusLog[id] = <<"running", "completed">>
  /\ \E id \in AuditIds :
       /\ Cardinality(AuditsWithId(id)) = 1
       /\ server.statusLog[id] = <<"running", "failed">>

ResultServed ==
  /\ ServerUp
  /\ server.lastGet.code = 200
  /\ server.lastGet.body # 0

(* ---- C38 ---- *)
(* C38: every accepted audit request receives an audit ID different from that
   of every other audit, so no two audits share a status entry, a progress list
   or an output directory, and no completion overwrites another audit's state *)
C38_AuditIsolation ==
  /\ \A j, k \in 1 .. Len(Audits) : j # k => Audits[j].id # Audits[k].id
  /\ \A k \in 1 .. Len(Audits) : server.activeAudits[Audits[k].id].progress = k
  /\ ServerUp => \A a, b \in server.outputs : a[1] = b[1] => a[2] = b[2]
  /\ ServerUp => \A id \in AuditIds : server.statusLog[id] \in StatusLogs \cup {<<>>}

(* audits whose IDs differ keep their own entry and their own directory *)
DistinctIdsIsolated ==
  ServerUp
  => \A k \in 1 .. Len(Audits) :
       AuditsWithId(Audits[k].id) = {k}
       => /\ server.activeAudits[Audits[k].id].progress = k
          /\ \A a \in server.outputs : a[1] = Audits[k].id => a[2] = k

TwoAuditsApart ==
  /\ Len(Audits) = 2
  /\ Audits[1].id # Audits[2].id
  /\ \A k \in 1 .. 2 : <<Audits[k].id, k>> \in server.outputs

(* ---- C39 ---- *)
Emitted(k, type) == \E i \in 1 .. Len(Audits[k].events) : Audits[k].events[i] = type

(* C39: the progress events of one audit never hold both 'complete' and
   'error'; 'complete' is emitted only by an audit whose audit() call returns a
   result, and 'error' only by one whose call throws *)
C39_CompletionSignal ==
  \A k \in 1 .. Len(Audits) :
    /\ ~(Emitted(k, "complete") /\ Emitted(k, "error"))
    /\ Emitted(k, "complete") => Audits[k].pc \in {"write", "returned", "completed"}
    /\ Emitted(k, "error") => Audits[k].pc \in {"threw", "failed"}

(* an audit that returned has 'complete' and no 'error'; one that threw has 'error' *)
SignalMatchesOutcome ==
  \A k \in 1 .. Len(Audits) :
    /\ Audits[k].pc \in {"returned", "completed"}
       => Emitted(k, "complete") /\ ~Emitted(k, "error")
    /\ Audits[k].pc \in {"threw", "failed"} <=> Emitted(k, "error")

CompleteThenFailed ==
  \E k \in 1 .. Len(Audits) :
    /\ Audits[k].pc = "failed"
    /\ Audits[k].events = <<"init", "complete", "error">>

====
